---- MODULE Spec2Model ----
(***************************************************************************)
(* Model of the streaming pipeline of the crypto analytics dashboard:      *)
(*   - KinesisProducer (the publish queue client): put_record, flush and   *)
(*     _flush_buffer, step by step, so that callers on several threads     *)
(*     interleave where the interpreter lets them;                         *)
(*   - MarketDataStreamer (the orchestrator): one asyncio task per         *)
(*     exchange connector, the shared running flag, start and main;        *)
(*   - DataQualityValidator.validate_record, with the binary64 arithmetic  *)
(*     of its score.                                                       *)
(***************************************************************************)
EXTENDS Integers, Sequences, FiniteSets, TLC

(***************************************************************************)
(* Bounds of the model.                                                    *)
(***************************************************************************)
\* Records created in one run (by the exchanges, or by the client's callers).
MaxRecords == 3
\* Largest configured KINESIS_BATCH_SIZE explored (the default is 500).
MaxBatchSize == 2
\* Largest configured KINESIS_MAX_RETRIES explored (the default is 3).
MaxMaxRetries == 2
\* Calls of flush() made by the callers of the client in one run.
MaxFlushCalls == 2
\* Trades the connector tasks of the orchestrator enqueue in one run.
MaxStreamed == 2
\* Largest configured S3_BATCH_SIZE explored (the default is 100).
MaxS3BatchSize == 2
\* Records added to one S3Writer.
MaxWriterRecords == 3
\* Calls of S3Writer.flush() in one run of the writer.
MaxWriterFlushes == 2
\* Seconds the clock advances while one S3Writer is in use.
MaxClockTicks == 1
\* Records of the event given to one invocation of lambda_handler.
MaxEventRecords == 10
\* Records of one event that are not the plain valid trade.
MaxFaultyRecords == 2
\* The capacity of a price history next to the one __init__ assigns.
MaxHistorySize == 10
\* Calls of enrich_record on one DataEnricher.
MaxEnrichCalls == 11
\* The first calls, which take any symbol and any price of the model.
MaxVariedCalls == 2
\* put_object calls that raise during one invocation.
MaxStorageFaults == 1
\* Records of an event made of valid trades only.
MaxPipelineRecords == 3

\* The callers of the one shared KinesisProducer: the connector tasks of the
\* orchestrator (MarketDataStreamer.connectors), or the worker threads of the
\* load test, which submits one worker per concurrent producer.
Workers == {"binance", "coinbase"}

RecordIds == 1..MaxRecords

VARIABLES
    \* KinesisProducer
    batch_size,          \* self.batch_size
    max_retries,         \* self.max_retries
    records_buffer,      \* self.records_buffer, a sequence of record ids
    total_records_sent,  \* self.total_records_sent
    failed_records,      \* self.failed_records
    \* the call of put_record / flush each worker is in
    call,
    \* environment and history
    nextId,              \* id of the next record handed to put_record
    sendCount,           \* per record: put_records calls answered by the stream that held it
    delivered,           \* records the stream has accepted
    flush_calls,         \* calls of flush() so far
    \* MarketDataStreamer
    running,             \* self.running, the shared flag
    phase,               \* where main() is: constructed, started, returned
    task,                \* per connector: the position of its stream_exchange task
    \* The connectors' quality scoring
    q_connector,         \* the connector whose _calculate_quality_score is called
    q_data,              \* its argument, the decoded exchange message
    q_result,            \* what the call returned or raised
    \* DataQualityValidator
    v_record,            \* the record given to validate_record
    v_now,               \* time.time() * 1000 at that call
    v_result,            \* what the call did
    v_quality_threshold, \* self.quality_threshold
    \* DataEnricher
    e_max_history_size,  \* self.max_history_size
    e_price_history,     \* self.price_history: symbol -> list of prices
    e_result,            \* what the last call of enrich_record did
    e_supplied,          \* per symbol: every price appended so far, in order
    e_calls,             \* calls of enrich_record so far
    \* S3Writer, the bucket and the clock
    s3_batch_size,       \* self.batch_size
    s3_records_buffer,   \* self.records_buffer
    s3_objects,          \* the bucket: the body stored under each object key
    s3_log,              \* every put_object call so far, with its outcome
    s3_clock,            \* int(time.time()), in seconds
    s3_nextId,           \* id of the next record handed to add_record
    s3_flush_calls,      \* calls of flush() so far
    s3_last,             \* the call of the writer that returned last
    \* S3Writer._get_partition_key called on its own
    pk_record,           \* the record given to _get_partition_key
    pk_clock,            \* time.time() at that call, in seconds
    pk_result,           \* what the call did
    \* lambda_handler and CloudWatchMetrics
    h_pc,                \* idle, loop (in the for loop), returned, raised
    h_has_record_id,     \* the records of the event carry a 'recordId' key
    h_dlq_enabled,       \* DLQ_ENABLED is "true"
    h_sns_topic_arn,     \* SNS_TOPIC_ARN is set
    h_event,             \* the payloads of event['Records'] taken so far
    h_total_records,     \* total_records
    h_valid_records,     \* valid_records
    h_invalid_records,   \* invalid_records
    h_failed_records,    \* failed_records, the list returned as batchItemFailures
    h_passed,            \* ids of the records for which is_valid was True
    h_raised,            \* ids of the records whose processing raised, in order
    h_alert,             \* the call of _send_alert, if any: its message and what
                         \* became of the publish
    metrics_buffer,      \* CloudWatchMetrics.metrics_buffer (metric names)
    cw_calls,            \* put_metric_data calls made
    cw_published,        \* metric data CloudWatch has accepted
    cw_refused           \* put_metric_data calls that raised

producerVars == <<batch_size, max_retries, records_buffer, total_records_sent,
                  failed_records, call, nextId, sendCount, delivered, flush_calls>>

connectorVars == <<q_connector, q_data, q_result>>

streamerVars == <<running, phase, task, connectorVars>>

validatorVars == <<v_record, v_now, v_result, v_quality_threshold>>

enricherVars == <<e_max_history_size, e_price_history, e_result, e_supplied, e_calls>>

\* The consumer side: what the actions of the producer side leave alone.
writerVars == <<s3_batch_size, s3_records_buffer, s3_objects, s3_log, s3_clock,
                s3_nextId, s3_flush_calls, s3_last, pk_record, pk_clock, pk_result>>

handlerVars == <<h_pc, h_has_record_id, h_dlq_enabled, h_sns_topic_arn, h_event, h_total_records,
                 h_valid_records, h_invalid_records, h_failed_records, h_passed,
                 h_raised, h_alert, metrics_buffer, cw_calls, cw_published,
                 cw_refused>>

consumerVars == <<validatorVars, enricherVars, writerVars, handlerVars>>

vars == <<producerVars, streamerVars, consumerVars>>

(***************************************************************************)
(* KinesisProducer                                                         *)
(***************************************************************************)
\* A worker that is in no call of the client.
IdleCall ==
    [pc |-> "idle", kind |-> "none", attempt |-> 0, inflight |-> <<>>,
     flushing |-> FALSE, n0 |-> 0, sent0 |-> 0, failed0 |-> 0,
     sends |-> 0, slept |-> 0, outcome |-> "none", rejected |-> 0,
     ret |-> "none"]

AllIdle == \A w \in Workers : call[w].pc = "idle"

\* KinesisProducer.__init__: the configuration read from the environment, an
\* empty buffer and zeroed counters.
ProducerInit(sizes, retries) ==
    /\ batch_size \in sizes
    /\ max_retries \in retries
    /\ records_buffer = <<>>
    /\ total_records_sent = 0
    /\ failed_records = 0
    /\ call = [w \in Workers |-> IdleCall]
    /\ nextId = 1
    /\ sendCount = [r \in RecordIds |-> 0]
    /\ delivered = 0
    /\ flush_calls = 0

\* Entry of _flush_buffer for a call of the given kind, on buffer buf: an empty
\* buffer returns True at once; range(max_retries) with max_retries = 0 runs no
\* attempt and falls through to the final return False; otherwise attempt 0.
FlushEntry(kind, buf) ==
    LET c0 == [IdleCall EXCEPT !.kind = kind, !.sent0 = total_records_sent,
                               !.failed0 = failed_records]
    IN  IF buf = <<>>
        THEN [c0 EXCEPT !.pc = "ret", !.ret = "true"]
        ELSE IF max_retries <= 0
        THEN [c0 EXCEPT !.pc = "ret", !.ret = "false", !.flushing = TRUE,
                        !.n0 = Len(buf)]
        ELSE [c0 EXCEPT !.pc = "send", !.flushing = TRUE, !.n0 = Len(buf)]

\* put_record: append the record; flush when the buffer has reached batch_size.
put_record(w) ==
    /\ call[w].pc = "idle"
    /\ nextId <= MaxRecords
    /\ LET buf == Append(records_buffer, nextId)
       IN  /\ records_buffer' = buf
           /\ call' = [call EXCEPT ![w] =
                 IF Len(buf) >= batch_size
                 THEN FlushEntry("put", buf)
                 ELSE [IdleCall EXCEPT !.kind = "put", !.pc = "ret", !.ret = "true",
                                       !.sent0 = total_records_sent,
                                       !.failed0 = failed_records]]
    /\ nextId' = nextId + 1
    /\ UNCHANGED <<batch_size, max_retries, total_records_sent, failed_records,
                   sendCount, delivered, flush_calls>>

\* A caller outside the orchestrator (a test, a load-test worker) calls
\* put_record.
PutRecord(w) == put_record(w) /\ UNCHANGED <<streamerVars, consumerVars>>

\* flush: _flush_buffer on whatever the buffer holds.
Flush(w) ==
    /\ call[w].pc = "idle"
    /\ flush_calls < MaxFlushCalls
    /\ flush_calls' = flush_calls + 1
    /\ call' = [call EXCEPT ![w] = FlushEntry("flush", records_buffer)]
    /\ UNCHANGED <<batch_size, max_retries, records_buffer, total_records_sent,
                   failed_records, nextId, sendCount, delivered, streamerVars, consumerVars>>

\* client.put_records(Records=self.records_buffer, ...): the request carries the
\* buffer as it is when the call is made.
Send(w) ==
    /\ call[w].pc = "send"
    /\ call' = [call EXCEPT ![w].pc = "await", ![w].inflight = records_buffer,
                            ![w].sends = @ + 1]
    /\ UNCHANGED <<batch_size, max_retries, records_buffer, total_records_sent,
                   failed_records, nextId, sendCount, delivered, flush_calls, streamerVars, consumerVars>>

\* OnResponse with the rejected records counted as sent too.
OnResponse_CountsRejected(k) ==
    [failed |-> failed_records + k,
     sent   |-> total_records_sent + Len(records_buffer),
     buffer |-> <<>>,
     ret    |-> "true"]

\* The state of the producer after a response with FailedRecordCount = k:
\* failed_records += k; total_records_sent += len(self.records_buffer) - k;
\* self.records_buffer.clear(); return True.
OnResponse(k) ==
    [failed |-> failed_records + k,
     sent   |-> total_records_sent + (Len(records_buffer) - k),
     buffer |-> <<>>,
     ret    |-> "true"]

RespondOk(w, k) ==
    /\ call[w].pc = "await"
    /\ k \in 0..Len(call[w].inflight)
    /\ LET r == OnResponse(k)
       IN  /\ failed_records' = r.failed
           /\ total_records_sent' = r.sent
           /\ records_buffer' = r.buffer
           /\ call' = [call EXCEPT ![w].pc = "ret", ![w].ret = r.ret,
                                   ![w].outcome = "ok", ![w].rejected = k]
    /\ sendCount' = [r \in RecordIds |->
                        IF \E i \in 1..Len(call[w].inflight) : call[w].inflight[i] = r
                        THEN sendCount[r] + 1 ELSE sendCount[r]]
    /\ delivered' = delivered + (Len(call[w].inflight) - k)
    /\ UNCHANGED <<batch_size, max_retries, nextId, flush_calls, streamerVars, consumerVars>>

\* OnClientError that counts the batch as failed but leaves it in the buffer.
OnClientError_KeepsBatch(a) ==
    IF a = max_retries - 1
    THEN [failed |-> failed_records + Len(records_buffer), buffer |-> records_buffer,
          pc |-> "ret", ret |-> "false", attempt |-> a, sleep |-> 0]
    ELSE [failed |-> failed_records, buffer |-> records_buffer,
          pc |-> "send", ret |-> "none", attempt |-> a + 1, sleep |-> 2 ^ a]

\* OnClientError that gives up one attempt late.
OnClientError_OneMore(a) ==
    IF a = max_retries
    THEN [failed |-> failed_records + Len(records_buffer), buffer |-> <<>>,
          pc |-> "ret", ret |-> "false", attempt |-> a, sleep |-> 0]
    ELSE [failed |-> failed_records, buffer |-> records_buffer,
          pc |-> "send", ret |-> "none", attempt |-> a + 1, sleep |-> 2 ^ a]

\* The producer after put_records raised ClientError on attempt a (from 0):
\* on the last attempt the batch is counted failed and dropped and the call
\* returns False; before that the call sleeps 2 ** a and tries again.
OnClientError(a) ==
    IF a = max_retries - 1
    THEN [failed |-> failed_records + Len(records_buffer), buffer |-> <<>>,
          pc |-> "ret", ret |-> "false", attempt |-> a, sleep |-> 0]
    ELSE [failed |-> failed_records, buffer |-> records_buffer,
          pc |-> "send", ret |-> "none", attempt |-> a + 1, sleep |-> 2 ^ a]

RespondClientError(w) ==
    /\ call[w].pc = "await"
    /\ LET r == OnClientError(call[w].attempt)
       IN  /\ failed_records' = r.failed
           /\ records_buffer' = r.buffer
           /\ call' = [call EXCEPT ![w].pc = r.pc, ![w].ret = r.ret,
                                   ![w].attempt = r.attempt,
                                   ![w].slept = @ + r.sleep,
                                   ![w].outcome = "client_error"]
    /\ UNCHANGED <<batch_size, max_retries, total_records_sent, nextId, sendCount,
                   delivered, flush_calls, streamerVars, consumerVars>>

\* The producer after put_records raised an exception that is no ClientError:
\* _flush_buffer does not catch it. In put_record the except clause counts one
\* failed record and returns False; flush() lets it reach the caller.
OnOtherError(kind) ==
    IF kind = "put"
    THEN [failed |-> failed_records + 1, ret |-> "false"]
    ELSE [failed |-> failed_records, ret |-> "raise"]

RespondOtherError(w) ==
    /\ call[w].pc = "await"
    /\ LET r == OnOtherError(call[w].kind)
       IN  /\ failed_records' = r.failed
           /\ call' = [call EXCEPT ![w].pc = "ret", ![w].ret = r.ret,
                                   ![w].outcome = "other_error"]
    /\ UNCHANGED <<batch_size, max_retries, records_buffer, total_records_sent,
                   nextId, sendCount, delivered, flush_calls, streamerVars, consumerVars>>

\* The call is over and its caller goes on.
Return(w) ==
    /\ call[w].pc = "ret"
    /\ call' = [call EXCEPT ![w] = IdleCall]
    /\ UNCHANGED <<batch_size, max_retries, records_buffer, total_records_sent,
                   failed_records, nextId, sendCount, delivered, flush_calls, streamerVars, consumerVars>>

\* get_stats(): the counters, len(self.records_buffer) and the success rate,
\* total_records_sent / (total_records_sent + failed_records) when the sum is
\* positive and 1.0 otherwise. The quotient of the two integers is kept as its
\* numerator and denominator.
get_stats ==
    [total_records_sent |-> total_records_sent,
     failed_records     |-> failed_records,
     buffer_size        |-> Len(records_buffer),
     success_rate       |->
         IF total_records_sent + failed_records > 0
         THEN [num |-> total_records_sent,
               den |-> total_records_sent + failed_records]
         ELSE [num |-> 1, den |-> 1]]

\* One step inside a call that has begun.
CallStep(w) ==
    \/ Send(w)
    \/ \E k \in 0..MaxRecords : RespondOk(w, k)
    \/ RespondClientError(w)
    \/ RespondOtherError(w)
    \/ Return(w)

(***************************************************************************)
(* MarketDataStreamer                                                      *)
(***************************************************************************)
\* max_retries of stream_exchange.
stream_max_retries == 10
\* ExchangeConnector.max_reconnect_delay.
max_reconnect_delay == 60

Min(a, b) == IF a <= b THEN a ELSE b

\* A task of stream_exchange: where it is, its retry_count, the delay of its
\* last asyncio.sleep since the last iteration of the while loop that ended
\* without error (0 if there was none), and three histories: had_delivery (a record was enqueued
\* on the current connection), streak (the iterations of the while loop
\* that ended in the except clause since the last that ended without error)
\* and, while the task is at the while condition, prev (what brought it there:
\* "start", the end of a sleep, the end of the async for loop, or the except
\* clause that did not sleep). late counts the records the task has enqueued
\* on the current connection since the flag was cleared.
Task0 ==
    [loc |-> "new", retry_count |-> 0, had_delivery |-> FALSE, delay |-> 0,
     streak |-> 0, prev |-> "none", late |-> 0]

\* MarketDataStreamer.__init__ builds the producer and the connectors and
\* leaves running False.
StreamerInit ==
    /\ running = FALSE
    /\ phase = "constructed"
    /\ task = [c \in Workers |-> Task0]

\* start(): running = True and one task per connector; each task begins at the
\* while condition of stream_exchange with retry_count = 0.
Start ==
    /\ phase = "constructed"
    /\ phase' = "started"
    /\ running' = TRUE
    /\ task' = [c \in Workers |-> [Task0 EXCEPT !.loc = "loop", !.prev = "start"]]
    /\ UNCHANGED <<producerVars, connectorVars, consumerVars>>

\* _signal_handler: SIGINT or SIGTERM clears the flag.
Signal ==
    /\ phase = "started"
    /\ running
    /\ running' = FALSE
    /\ UNCHANGED <<phase, task, producerVars, connectorVars, consumerVars>>

\* The while condition without the test of the flag.
LoopCheck_IgnoresFlag(c) ==
    /\ phase = "started" /\ AllIdle
    /\ task[c].loc = "loop"
    /\ task' = [task EXCEPT ![c].prev = "none", ![c].loc =
                   IF task[c].retry_count < stream_max_retries
                   THEN "connecting" ELSE "done"]
    /\ UNCHANGED <<running, phase, producerVars, connectorVars, consumerVars>>

\* The while condition without the test of the retry count.
LoopCheck_NoRetryLimit(c) ==
    /\ phase = "started" /\ AllIdle
    /\ task[c].loc = "loop"
    /\ task' = [task EXCEPT ![c].prev = "none",
                            ![c].loc = IF running THEN "connecting" ELSE "done"]
    /\ UNCHANGED <<running, phase, producerVars, connectorVars, consumerVars>>

\* The while condition: self.running and retry_count < max_retries.
LoopCheck(c) ==
    /\ phase = "started" /\ AllIdle
    /\ task[c].loc = "loop"
    /\ task' = [task EXCEPT ![c].prev = "none", ![c].loc =
                   IF running /\ task[c].retry_count < stream_max_retries
                   THEN "connecting" ELSE "done"]
    /\ UNCHANGED <<running, phase, producerVars, connectorVars, consumerVars>>

\* OnError with the delay taken from the count before the increment.
OnError_ZeroIndexed(t) ==
    LET rc == t.retry_count + 1
    IN  IF rc < stream_max_retries
        THEN [t EXCEPT !.retry_count = rc, !.loc = "sleeping", !.late = 0,
                       !.delay = Min(2 ^ t.retry_count, max_reconnect_delay)]
        ELSE [t EXCEPT !.retry_count = rc, !.loc = "loop", !.delay = 0,
                       !.prev = "error", !.late = 0]

\* OnError that goes on reading the connection it has.
OnError_ResumesRead(t) ==
    [t EXCEPT !.retry_count = t.retry_count + 1, !.loc = "reading"]

\* The except clause of stream_exchange, entered with retry count rc:
\* retry_count += 1, and a sleep of min(2 ** retry_count, max_reconnect_delay)
\* when the count is still below the maximum.
OnError(t) ==
    LET rc == t.retry_count + 1
    IN  IF rc < stream_max_retries
        THEN [t EXCEPT !.retry_count = rc, !.loc = "sleeping", !.late = 0,
                       !.delay = Min(2 ^ rc, max_reconnect_delay)]
        ELSE [t EXCEPT !.retry_count = rc, !.loc = "loop", !.delay = 0,
                       !.prev = "error", !.late = 0]

\* The statement after the async for loop: retry_count = 0, then the while
\* condition again.
OnLoopEnd(t) ==
    [t EXCEPT !.retry_count = 0, !.loc = "loop", !.prev = "end", !.late = 0,
              !.delay = 0]

\* History: one more iteration ended in the except clause; an iteration ended
\* without error.
Failed(t) == [t EXCEPT !.streak = @ + 1]
Ended(t) == [t EXCEPT !.streak = 0]

\* await connector.connect() returns a websocket.
ConnectOk(c) ==
    /\ phase = "started" /\ AllIdle
    /\ task[c].loc = "connecting"
    /\ task' = [task EXCEPT ![c].loc = "subscribing", ![c].had_delivery = FALSE]
    /\ UNCHANGED <<running, phase, producerVars, connectorVars, consumerVars>>

\* await connector.connect() raises.
ConnectFail(c) ==
    /\ phase = "started" /\ AllIdle
    /\ task[c].loc = "connecting"
    /\ task' = [task EXCEPT ![c] = Failed(OnError([@ EXCEPT !.had_delivery = FALSE]))]
    /\ UNCHANGED <<running, phase, producerVars, connectorVars, consumerVars>>

\* await connector.subscribe(websocket) returns.
SubscribeOk(c) ==
    /\ phase = "started" /\ AllIdle
    /\ task[c].loc = "subscribing"
    /\ task' = [task EXCEPT ![c].loc = "reading"]
    /\ UNCHANGED <<running, phase, producerVars, connectorVars, consumerVars>>

\* await connector.subscribe(websocket) raises: only the Coinbase connector
\* sends a subscription; the Binance one is a pass.
SubscribeFail(c) ==
    /\ phase = "started" /\ AllIdle
    /\ c = "coinbase"
    /\ task[c].loc = "subscribing"
    /\ task' = [task EXCEPT ![c] = Failed(OnError(@))]
    /\ UNCHANGED <<running, phase, producerVars, connectorVars, consumerVars>>

\* The async for loop yields a message while the flag is cleared: break.
MessageStop(c) ==
    /\ phase = "started" /\ AllIdle
    /\ task[c].loc = "reading"
    /\ ~running
    /\ task' = [task EXCEPT ![c] = Ended(OnLoopEnd(@))]
    /\ UNCHANGED <<running, phase, producerVars, connectorVars, consumerVars>>

\* The messages of an exchange, by what the decoding makes of them: a
\* well-formed trade, a well-formed trade with price 0, a message of another
\* type, text that is no JSON, a trade without one of its fields, a trade
\* whose price is a string float() refuses, a trade whose price is null, a
\* JSON list and a JSON number; and well-formed trades with an empty symbol,
\* with a price above PRICE_VALIDATION_MAX, with a negative quantity and with
\* the quantity "NaN", which float() reads as not-a-number.
Messages ==
    {"trade", "trade_price_zero", "other_type", "invalid_json", "missing_field",
     "bad_number", "null_number", "json_list", "json_number",
     "trade_empty_symbol", "trade_price_high", "trade_volume_negative",
     "trade_volume_nan"}

\* The messages process_message turns into a MarketData.
Trades ==
    {"trade", "trade_price_zero", "trade_empty_symbol", "trade_price_high",
     "trade_volume_negative", "trade_volume_nan"}

\* process_message of connector c: "record" (a MarketData), "none", or "raise".
\* The except clause catches JSONDecodeError, KeyError and ValueError only:
\* float(None) is a TypeError; 'e' not in data is a TypeError on a number and
\* False on a list (Binance); data.get is an AttributeError on anything but an
\* object (Coinbase).
process_message(c, m) ==
    CASE m \in Trades -> "record"
      [] m \in {"other_type", "invalid_json", "missing_field", "bad_number"} -> "none"
      [] m = "null_number" -> "raise"
      [] m = "json_number" -> "raise"
      [] m = "json_list" -> IF c = "binance" THEN "none" ELSE "raise"

\* Prices and volumes are counted in thousandths.
\* PRICE_VALIDATION_MIN, default 0.01.
min_price == 10
\* PRICE_VALIDATION_MAX, default 1000000.0.
max_price == 1000000000
\* VOLUME_VALIDATION_MIN, default 0.0.
min_volume == 0

\* The time field of a trade message as json.loads returns it: Binance sends
\* "T", the trade time as an integer of epoch milliseconds; Coinbase sends
\* "time", an ISO 8601 string.
TimeField(c) ==
    IF c = "binance" THEN [k |-> "int", text |-> "1640995200000"]
    ELSE [k |-> "str", text |-> "2022-01-01T00:00:00.000Z"]

\* The timestamp of the MarketData: str(data['T']) in BinanceConnector, the
\* decimal digits of the integer; data['time'] as it is in CoinbaseConnector.
decode_timestamp(c, v) ==
    IF c = "binance" THEN v.text ELSE v.text

\* int(s) returns on the timestamp strings of the model: on the string of
\* decimal digits it does, on the ISO 8601 time it raises ValueError.
IntParses(s) == s = "1640995200000"

\* The MarketData process_message builds from a trade: price and volume are
\* floats (in thousandths), the other fields strings.
Decoded(c, m) ==
    [exchange  |-> c,
     symbol    |-> IF m = "trade_empty_symbol" THEN "" ELSE "btcusdt",
     timestamp |-> decode_timestamp(c, TimeField(c)),
     price     |-> CASE m = "trade_price_zero" -> [k |-> "num", v |-> 0]
                     [] m = "trade_price_high" -> [k |-> "num", v |-> max_price + 1]
                     [] OTHER -> [k |-> "num", v |-> 50000000],
     volume    |-> CASE m = "trade_volume_negative" -> [k |-> "num", v |-> -1]
                     [] m = "trade_volume_nan" -> [k |-> "nan"]
                     [] OTHER -> [k |-> "num", v |-> 1500]]

\* a < b on floats: every comparison with NaN is False.
FloatLess(a, b) == a.k = "num" /\ b.k = "num" /\ a.v < b.v
FloatLeq(a, b) == a.k = "num" /\ b.k = "num" /\ a.v <= b.v

\* MarketData.validate(): all([exchange, symbol, timestamp, price > 0]), then
\* min_price <= price <= max_price, then not volume < min_volume. The bounds
\* are read from the environment at each call.
market_data_validate(md) ==
    LET Float(v) == [k |-> "num", v |-> v]
    IN  /\ md.exchange # "" /\ md.symbol # "" /\ md.timestamp # ""
        /\ FloatLess(Float(0), md.price)
        /\ FloatLeq(Float(min_price), md.price)
        /\ FloatLeq(md.price, Float(max_price))
        /\ ~FloatLess(md.volume, Float(min_volume))

\* The signal handler runs between two bytecodes of the main thread. Nothing
\* else runs between the test 'if not self.running' on a message and the
\* handling of that message, so the one interleaving to tell apart is the
\* handler clearing the flag there: the task has the message in hand
\* ("handling") and goes on with it.
SignalInFlight(c) ==
    /\ phase = "started" /\ AllIdle
    /\ running
    /\ task[c].loc = "reading"
    /\ nextId <= MaxStreamed
    /\ running' = FALSE
    /\ task' = [task EXCEPT ![c].loc = "handling"]
    /\ UNCHANGED <<phase, producerVars, connectorVars, consumerVars>>

\* The task handles a message without having found the flag set.
MessageReady_NoFlagTest(c) == task[c].loc \in {"reading", "handling"}

\* The async for loop has yielded a message and the test of the flag has
\* passed: the flag is set, or it was cleared after the test.
MessageReady(c) ==
    \/ task[c].loc = "reading" /\ running
    \/ task[c].loc = "handling"

\* The body of the async for loop on message m after the test of the flag:
\* process_message, validate, put_record. An exception reaches the except
\* clause of stream_exchange.
Message(c, m) ==
    /\ phase = "started" /\ AllIdle
    /\ MessageReady(c)
    /\ LET r == process_message(c, m)
       IN  IF r = "raise"
           THEN /\ task' = [task EXCEPT ![c] = Failed(OnError(@))]
                /\ UNCHANGED <<running, phase, producerVars, connectorVars, consumerVars>>
           ELSE IF r = "record" /\ market_data_validate(Decoded(c, m))
           THEN /\ nextId <= MaxStreamed
                /\ put_record(c)
                /\ task' = [task EXCEPT ![c].loc = "reading",
                                        ![c].had_delivery = TRUE,
                                        ![c].late = IF running THEN @ ELSE @ + 1]
                /\ UNCHANGED <<running, phase, connectorVars, consumerVars>>
           ELSE /\ task' = [task EXCEPT ![c].loc = "reading"]
                /\ UNCHANGED <<running, phase, producerVars, connectorVars, consumerVars>>

\* The async for loop yields a trade that validate() passes: put_record.
MessageEnqueue(c) ==
    \E m \in Messages :
        /\ process_message(c, m) = "record" /\ market_data_validate(Decoded(c, m))
        /\ Message(c, m)

\* The async for loop yields a message that process_message turns into None, or
\* into a record validate() refuses: nothing is done with it.
MessageDrop(c) ==
    \E m \in Messages :
        /\ \/ process_message(c, m) = "none"
           \/ process_message(c, m) = "record" /\ ~market_data_validate(Decoded(c, m))
        /\ Message(c, m)

\* The async for loop yields a message on which process_message raises.
MessageRaise(c) ==
    \E m \in Messages :
        /\ process_message(c, m) = "raise"
        /\ Message(c, m)

\* The websocket is closed by the exchange without an error: the loop ends.
StreamClosed(c) ==
    /\ phase = "started" /\ AllIdle
    /\ task[c].loc = "reading"
    /\ task' = [task EXCEPT ![c] = Ended(OnLoopEnd(@))]
    /\ UNCHANGED <<running, phase, producerVars, connectorVars, consumerVars>>

\* Reading from the websocket raises (the connection is lost).
StreamError(c) ==
    /\ phase = "started" /\ AllIdle
    /\ task[c].loc = "reading"
    /\ task' = [task EXCEPT ![c] = Failed(OnError(@))]
    /\ UNCHANGED <<running, phase, producerVars, connectorVars, consumerVars>>

\* await asyncio.sleep(delay) ends; the while condition is next.
SleepDone(c) ==
    /\ phase = "started" /\ AllIdle
    /\ task[c].loc = "sleeping"
    /\ task' = [task EXCEPT ![c].loc = "loop", ![c].prev = "sleep"]
    /\ UNCHANGED <<running, phase, producerVars, connectorVars, consumerVars>>

\* asyncio.gather returns once every task has ended; start() returns and
\* main() with it. Nothing calls stop().
StartReturns ==
    /\ phase = "started"
    /\ \A c \in Workers : task[c].loc = "done"
    /\ phase' = "returned"
    /\ UNCHANGED <<running, task, producerVars, connectorVars, consumerVars>>

(***************************************************************************)
(* binary64 arithmetic of the validator's score. A float is a sign and a   *)
(* magnitude counted in units of 2^-56, kept in two limbs of 28 bits       *)
(* (magnitude = hi * 2^28 + lo): every double between 2^-56 and 2 that the *)
(* score can take is a whole number of these units.                        *)
(***************************************************************************)
Limb == 2 ^ 28

F64(neg, hi, lo) == [neg |-> neg, hi |-> hi, lo |-> lo]

\* The literals of validate_record, as the doubles Python reads them:
\* 1.0 = 2^56 units, 0.1 = 0x1999999999999A, 0.2 = 0x33333333333334,
\* 0.3 = 0x4CCCCCCCCCCCCC and 0.8 = 0xCCCCCCCCCCCCD0 units.
F64_1_0 == F64(FALSE, 268435456, 0)
F64_0_1 == F64(FALSE, 26843545, 161061274)
F64_0_2 == F64(FALSE, 53687091, 53687092)
F64_0_3 == F64(FALSE, 80530636, 214748364)
F64_0_8 == F64(FALSE, 214748364, 214748368)
F64_0_0 == F64(FALSE, 0, 0)

MagIsZero(x) == x.hi = 0 /\ x.lo = 0
MagLess(x, y) == x.hi < y.hi \/ (x.hi = y.hi /\ x.lo < y.lo)

MagAdd(x, y) ==
    LET lo == x.lo + y.lo
    IN  IF lo >= Limb THEN [hi |-> x.hi + y.hi + 1, lo |-> lo - Limb]
        ELSE [hi |-> x.hi + y.hi, lo |-> lo]

\* x - y for x >= y.
MagSub(x, y) ==
    IF x.lo >= y.lo THEN [hi |-> x.hi - y.hi, lo |-> x.lo - y.lo]
    ELSE [hi |-> x.hi - y.hi - 1, lo |-> x.lo + Limb - y.lo]

\* The spacing of the doubles around a magnitude, in units: 53 significant bits.
Ulp(x) ==
    IF x.hi >= 2 ^ 28 THEN 16
    ELSE IF x.hi >= 2 ^ 27 THEN 8
    ELSE IF x.hi >= 2 ^ 26 THEN 4
    ELSE IF x.hi >= 2 ^ 25 THEN 2
    ELSE 1

\* Round to nearest, ties to even.
MagRound(x) ==
    LET q    == Ulp(x)
        r    == x.lo % q
        down == x.lo - r
        up   == down + q
        lo   == IF 2 * r < q THEN down
                ELSE IF 2 * r > q THEN up
                ELSE IF (down \div q) % 2 = 0 THEN down ELSE up
    IN  IF lo >= Limb THEN [hi |-> x.hi + 1, lo |-> lo - Limb]
        ELSE [hi |-> x.hi, lo |-> lo]

\* a - b in binary64, for b >= 0.
F64Sub(a, b) ==
    IF a.neg
    THEN LET m == MagRound(MagAdd(a, b)) IN F64(TRUE, m.hi, m.lo)
    ELSE IF MagLess(a, b)
    THEN LET m == MagRound(MagSub(b, a)) IN F64(TRUE, m.hi, m.lo)
    ELSE LET m == MagRound(MagSub(a, b)) IN F64(FALSE, m.hi, m.lo)

\* a >= b.
F64Ge(a, b) ==
    IF MagIsZero(a) /\ MagIsZero(b) THEN TRUE
    ELSE IF a.neg /\ ~b.neg THEN FALSE
    ELSE IF ~a.neg /\ b.neg THEN TRUE
    ELSE IF a.neg THEN ~MagLess(b, a)
    ELSE ~MagLess(a, b)

\* max(0.0, x): Python keeps its first argument unless the second is greater.
F64Max0(x) == IF x.neg \/ MagIsZero(x) THEN F64_0_0 ELSE x

(***************************************************************************)
(* The connectors' quality scoring. The argument is what json.loads made   *)
(* of the exchange message: an object, given by the required fields it     *)
(* holds and the value of its price field, or a list, or a number.         *)
(***************************************************************************)
\* required_fields in _calculate_quality_score of BinanceConnector and of
\* CoinbaseConnector.
connector_required_fields(c) ==
    IF c = "binance" THEN {"s", "p", "q", "T"}
    ELSE {"product_id", "price", "size", "time"}

\* The field float() is applied to.
price_field(c) == IF c = "binance" THEN "p" ELSE "price"

\* Values of the price field: the strings "50000.00", "0", "-1", "nan" and
\* "abc", and null.
ConnectorPrices ==
    {[k |-> "num", v |-> 50000000], [k |-> "num", v |-> 0], [k |-> "num", v |-> -1000],
     [k |-> "nan"], [k |-> "badstr"], [k |-> "null"]}

NoPrice == [k |-> "absent"]

QualityInputs(c) ==
    {[k |-> "object", fields |-> fs, price |-> NoPrice] :
        fs \in SUBSET (connector_required_fields(c) \ {price_field(c)})}
    \cup {[k |-> "object", fields |-> fs \cup {price_field(c)}, price |-> pv] :
            fs \in SUBSET (connector_required_fields(c) \ {price_field(c)}), pv \in ConnectorPrices}
    \cup {[k |-> "list", fields |-> {}, price |-> NoPrice],
          [k |-> "number", fields |-> {}, price |-> NoPrice]}

\* score -= 0.2, n times.
RECURSIVE minus_fifths(_, _)
minus_fifths(score, n) ==
    IF n = 0 THEN score ELSE minus_fifths(F64Sub(score, F64_0_2), n - 1)

\* _calculate_quality_score(data). `field not in data` raises TypeError on a
\* number and is True on an empty list; data[price_field] raises KeyError on
\* an object without the field, which the except clause (ValueError,
\* TypeError) does not catch, and TypeError on a list, which it does; float()
\* raises ValueError on "abc" and TypeError on null; nan <= 0 is False.
calculate_quality_score(c, data) ==
    IF data.k = "number" THEN [outcome |-> "raise", error |-> "TypeError"]
    ELSE LET missing == Cardinality(connector_required_fields(c) \ data.fields)
             score == minus_fifths(F64_1_0, missing)
         IN  IF data.k = "object" /\ price_field(c) \notin data.fields
             THEN [outcome |-> "raise", error |-> "KeyError"]
             ELSE LET penalty ==
                          \/ data.k = "list"
                          \/ data.price.k \in {"badstr", "null"}
                          \/ data.price.k = "num" /\ data.price.v <= 0
                  IN  [outcome |-> "return",
                       score |-> F64Max0(IF penalty THEN F64Sub(score, F64_0_3)
                                         ELSE score)]

NoScore == [outcome |-> "none"]

ConnectorInit ==
    /\ q_connector = "binance"
    /\ q_data = [k |-> "list", fields |-> {}, price |-> NoPrice]
    /\ q_result = NoScore

CalculateQualityScore ==
    /\ q_result = NoScore
    /\ q_result' = calculate_quality_score(q_connector, q_data)
    /\ UNCHANGED <<q_connector, q_data, running, phase, task, producerVars,
                   consumerVars>>

(***************************************************************************)
(* DataQualityValidator                                                    *)
(***************************************************************************)
\* Prices and volumes are counted in thousandths, times in milliseconds.
\* TIMESTAMP_TOLERANCE_SECONDS, default 300.
timestamp_tolerance == 300
\* DATA_QUALITY_THRESHOLD, default 0.8.
quality_threshold == F64_0_8
\* The thresholds of the model: 0.0, 2^-54, 0.5, the default and 1.0.
Thresholds ==
    {F64_0_0, F64(FALSE, 0, 4), F64(FALSE, 134217728, 0), F64_0_8, F64_1_0}

valid_exchanges == {"binance", "coinbase", "kraken"}

\* str.lower() on the exchange names of the model.
Lower(x) ==
    CASE x = "Binance" -> "binance"
      [] x = "KRAKEN"  -> "kraken"
      [] OTHER         -> x

Absent == [k |-> "absent"]

\* A value of the decoded JSON record: a number, a string that float() or
\* int() parses to v, a string they refuse (ValueError), null (TypeError), or
\* the NaN literal json.loads accepts.
Num(v)    == [k |-> "num", v |-> v]
NumStr(v) == [k |-> "numstr", v |-> v]
BadStr    == [k |-> "badstr"]
Null      == [k |-> "null"]
NaN       == [k |-> "nan"]
Str(x)    == [k |-> "str", v |-> x]

\* The clock of the model and the timestamps around its tolerance window.
Clocks == {1000000}
TimestampValues ==
    {Absent, BadStr, Null, NumStr(1000000)} \cup
    {Num(t) : t \in {0, 1000000 - 300001, 1000000 - 300000, 1000000,
                     1000000 + 300000, 1000000 + 300001}}
PriceValues ==
    {Absent, BadStr, Null, NaN, NumStr(-5000), NumStr(50000000)} \cup
    {Num(x) : x \in {-1000, 0, 9, 10, 50000000, 1000000000, 1000000001}}
VolumeValues ==
    {Absent, BadStr, Null, NumStr(1500)} \cup {Num(x) : x \in {-1, 0, 1500}}
ExchangeValues ==
    {Absent, Null, Num(7), Str("binance"), Str("Binance"), Str("KRAKEN"), Str("ftx")}
SymbolValues == {Absent, Str("btcusdt")}

Records ==
    [exchange : ExchangeValues, symbol : SymbolValues, timestamp : TimestampValues,
     price : PriceValues, volume : VolumeValues]

\* field in record
Has(rec, f) == rec[f].k # "absent"
\* float(x) and int(x) return a number
Parses(x) == x.k \in {"num", "numstr", "nan"}
IsNumber(x) == x.k \in {"num", "numstr"}

required_fields == <<"exchange", "symbol", "timestamp", "price", "volume">>

\* The loop over required_fields: 0.2 off the score for each missing field.
RECURSIVE MissingFields(_, _, _)
MissingFields(rec, i, st) ==
    IF i > Len(required_fields) THEN st
    ELSE IF ~Has(rec, required_fields[i])
    THEN MissingFields(rec, i + 1,
            [score  |-> F64Sub(st.score, F64_0_2),
             errors |-> Append(st.errors, <<"missing", required_fields[i]>>)])
    ELSE MissingFields(rec, i + 1, st)

\* price_in_range without the lower bound.
price_in_range_NoMin(x) == x.k # "nan" /\ x.v <= max_price

\* self.min_price <= price <= self.max_price; every comparison with NaN is False.
price_in_range(x) == x.k # "nan" /\ min_price <= x.v /\ x.v <= max_price

\* Validate price.
PriceCheck(rec, st) ==
    IF ~Has(rec, "price") THEN st
    ELSE IF ~Parses(rec.price)
    THEN [score |-> F64Sub(st.score, F64_0_3),
          errors |-> Append(st.errors, <<"price", "format">>)]
    ELSE IF ~price_in_range(rec.price)
    THEN [score |-> F64Sub(st.score, F64_0_3),
          errors |-> Append(st.errors, <<"price", "range">>)]
    ELSE st

\* volume < self.min_volume
volume_below_min(x) == x.k # "nan" /\ x.v < min_volume

\* Validate volume.
VolumeCheck(rec, st) ==
    IF ~Has(rec, "volume") THEN st
    ELSE IF ~Parses(rec.volume)
    THEN [score |-> F64Sub(st.score, F64_0_2),
          errors |-> Append(st.errors, <<"volume", "format">>)]
    ELSE IF volume_below_min(rec.volume)
    THEN [score |-> F64Sub(st.score, F64_0_2),
          errors |-> Append(st.errors, <<"volume", "minimum">>)]
    ELSE st

Abs(x) == IF x < 0 THEN -x ELSE x

\* abs(current_time - timestamp) > self.timestamp_tolerance * 1000
timestamp_stale(ts, now) == Abs(now - ts.v) > timestamp_tolerance * 1000

\* Validate timestamp.
TimestampCheck(rec, now, st) ==
    IF ~Has(rec, "timestamp") THEN st
    ELSE IF ~IsNumber(rec.timestamp)
    THEN [score |-> F64Sub(st.score, F64_0_1),
          errors |-> Append(st.errors, <<"timestamp", "format">>)]
    ELSE IF timestamp_stale(rec.timestamp, now)
    THEN [score |-> F64Sub(st.score, F64_0_1),
          errors |-> Append(st.errors, <<"timestamp", "old">>)]
    ELSE st

\* Validate exchange: record['exchange'].lower() not in valid_exchanges.
ExchangeCheck(rec, st) ==
    IF ~Has(rec, "exchange") THEN st
    ELSE IF Lower(rec.exchange.v) \notin valid_exchanges
    THEN [score |-> F64Sub(st.score, F64_0_2),
          errors |-> Append(st.errors, <<"exchange", "invalid">>)]
    ELSE st

\* score >= self.quality_threshold
meets_threshold(score) == F64Ge(score, v_quality_threshold)

\* validate_record at clock now. A present exchange that is no string has no
\* lower(): the AttributeError leaves the function.
validate_record(rec, now) ==
    LET s1 == MissingFields(rec, 1, [score |-> F64_1_0, errors |-> <<>>])
        s2 == PriceCheck(rec, s1)
        s3 == VolumeCheck(rec, s2)
        s4 == TimestampCheck(rec, now, s3)
    IN  IF Has(rec, "exchange") /\ rec.exchange.k # "str"
        THEN [outcome |-> "raise", accepted |-> FALSE, score |-> F64_0_0,
              errors |-> s4.errors]
        ELSE LET s5 == ExchangeCheck(rec, s4)
             IN  [outcome  |-> "return",
                  accepted |-> meets_threshold(s5.score),
                  score    |-> F64Max0(s5.score),
                  errors   |-> s5.errors]

\* dict.get(field, 'unknown') on the exchange and the symbol.
GetOrUnknown(rec, f) == IF Has(rec, f) THEN rec[f] ELSE Str("unknown")

(***************************************************************************)
(* DataEnricher: the price history of each symbol and the fields derived   *)
(* from it. Prices are exact numbers (thousandths); a quotient is kept as  *)
(* numerator and denominator and a square root by its radicand, so sums,   *)
(* means and deviations are those of the prices themselves. processed_at   *)
(* and the spread fields depend on the record alone and are not carried.   *)
(***************************************************************************)
\* DataEnricher.__init__: self.max_history_size = 100.
max_history_size == 100

\* float(record.get('price', 0))
PriceOf(rec) == IF Has(rec, "price") THEN rec.price.v ELSE 0

\* The list of a symbol, [] when price_history has no such key.
HistoryOf(ph, sym) == IF sym \in DOMAIN ph THEN ph[sym] ELSE <<>>

RECURSIVE SumSeq(_)
SumSeq(s) == IF s = <<>> THEN 0 ELSE Head(s) + SumSeq(Tail(s))

Quot(n, d) == [num |-> n, den |-> d]
Root(q) == [root_of |-> q]

\* The first n prices of a list, where the last n belong.
window_Oldest(h, n) == SubSeq(h, 1, n)

\* self.price_history[symbol][-n:] for a list of n prices or more.
window(h, n) == SubSeq(h, Len(h) - n + 1, Len(h))

\* sum(prices) / n
sma(h, n) == Quot(SumSeq(window(h, n)), n)

\* sum((p - mean_price) ** 2 for p in prices) / len(prices), with
\* mean_price = sum(prices) / len(prices): n * (p - mean_price) = n * p - sum.
variance(ps) ==
    LET n == Len(ps)
        S == SumSeq(ps)
    IN  Quot(SumSeq([i \in 1..n |-> (n * ps[i] - S) ^ 2]), n * n * n)

\* variance ** 0.5: the non-negative root.
volatility(h) == Root(variance(window(h, 10)))

\* A previous price whatever its sign.
has_previous_AnySign(h) == h # <<>>

\* symbol in self.price_history and self.price_history[symbol], and
\* previous_price > 0.
has_previous(h) == h # <<>> /\ h[Len(h)] > 0

\* A full list that refuses the new price instead of dropping the oldest.
append_bounded_KeepsOldest(h, price, cap) ==
    IF Len(h) >= cap THEN h ELSE Append(h, price)

\* append(price), then pop(0) when the list is longer than max_history_size.
append_bounded(h, price, cap) ==
    LET h1 == Append(h, price)
    IN  IF Len(h1) > cap THEN Tail(h1) ELSE h1

\* The derived fields of one call: before is the list of the symbol before
\* the call, after the list once the price is appended.
Derived(before, after, price) ==
    LET present ==
            (IF has_previous(before)
             THEN {"price_change", "price_change_percentage"} ELSE {})
            \cup (IF Len(after) >= 5 THEN {"sma_5"} ELSE {})
            \cup (IF Len(after) >= 10 THEN {"sma_10", "volatility"} ELSE {})
    IN  [f \in present |->
            CASE f = "price_change" -> price - before[Len(before)]
              [] f = "price_change_percentage" ->
                    Quot((price - before[Len(before)]) * 100, before[Len(before)])
              [] f = "sma_5" -> sma(after, 5)
              [] f = "sma_10" -> sma(after, 10)
              [] f = "volatility" -> volatility(after)]

\* enrich_record raises: float(record.get('price', 0)) on a value float()
\* refuses, or the lookup of an unhashable symbol in price_history.
enrich_raises(rec) ==
    \/ Has(rec, "price") /\ ~Parses(rec.price)
    \/ rec.symbol = [k |-> "list"]

\* enrich_record on the histories ph with capacity cap: the new histories and
\* the enriched record (the record and its derived fields). An exception
\* leaves before price_history is touched.
enrich_record(ph, cap, rec) ==
    IF enrich_raises(rec)
    THEN [outcome |-> "raise", history |-> ph]
    ELSE LET symbol == GetOrUnknown(rec, "symbol")
             price  == PriceOf(rec)
             before == HistoryOf(ph, symbol)
             after  == append_bounded(before, price, cap)
         IN  [outcome |-> "return",
              history |-> [s \in DOMAIN ph \cup {symbol} |->
                              IF s = symbol THEN after ELSE ph[s]],
              symbol  |-> symbol,
              price   |-> price,
              record  |-> rec,
              derived |-> Derived(before, after, price)]

\* DataEnricher.__init__ with the capacity caps offers.
EnricherInit(caps) ==
    /\ e_max_history_size \in caps
    /\ e_price_history = <<>>
    /\ e_result = [outcome |-> "none"]
    /\ e_supplied = <<>>
    /\ e_calls = 0

\* The records given to enrich_record: at first any symbol (or none) with a
\* price, no price or a price float() refuses; then trades of one symbol at
\* two prices.
EnricherInputs ==
    IF e_calls < MaxVariedCalls
    THEN [symbol : {Str("X"), Str("Y"), Absent}, price : {Absent, Num(1000), BadStr}]
    ELSE [symbol : {Str("X")}, price : {Num(1002), Num(999)}]

\* One call of enrich_record.
Enrich ==
    /\ e_calls < MaxEnrichCalls
    /\ \E rec \in EnricherInputs :
         LET res == enrich_record(e_price_history, e_max_history_size, rec)
         IN  /\ e_price_history' = res.history
             /\ e_result' = res
             /\ e_supplied' =
                   IF res.outcome = "raise" THEN e_supplied
                   ELSE [s \in DOMAIN e_supplied \cup {res.symbol} |->
                            IF s = res.symbol
                            THEN Append(HistoryOf(e_supplied, s), res.price)
                            ELSE e_supplied[s]]
    /\ e_calls' = e_calls + 1
    /\ UNCHANGED <<e_max_history_size, validatorVars, writerVars, handlerVars,
                   producerVars, streamerVars>>

(***************************************************************************)
(* S3Writer: the buffer, the grouping by partition key and one put_object  *)
(* per partition. A buffered record is an id and the fields the key is     *)
(* derived from.                                                           *)
(***************************************************************************)
\* The epoch hour of a time in milliseconds: year, month, day and hour of
\* datetime.fromtimestamp(t / 1000, tz=utc) are a function of it.
EpochHour(ms) == ms \div 3600000

\* _get_partition_key at clock (seconds): int(record.get('timestamp', 0)), and
\* the current time when int() raises ValueError or TypeError.
get_partition_key(rec, clock) ==
    [exchange |-> GetOrUnknown(rec, "exchange"),
     symbol   |-> GetOrUnknown(rec, "symbol"),
     hour     |-> IF ~Has(rec, "timestamp") THEN EpochHour(0)
                  ELSE IF IsNumber(rec.timestamp) THEN EpochHour(rec.timestamp.v)
                  ELSE EpochHour(clock * 1000)]

\* An integer json.loads reads and int() returns, too large for the
\* platform's time_t: datetime.fromtimestamp raises OverflowError, which the
\* except clause of _get_partition_key does not name.
BeyondTimeT == [k |-> "int_beyond_time_t"]
\* An integer that is a time after the year 9999: datetime.fromtimestamp
\* raises ValueError.
YearOutOfRange == [k |-> "int_year_out_of_range"]

\* _get_partition_key raises on this record.
partition_key_raises(rec) == Has(rec, "timestamp") /\ rec.timestamp = BeyondTimeT

\* The civil date of a day counted from 1970-01-01 (proleptic Gregorian
\* calendar, as datetime's).
civil_from_days(days) ==
    LET z   == days + 719468
        era == z \div 146097
        doe == z - era * 146097
        yoe == (doe - doe \div 1460 + doe \div 36524 - doe \div 146096) \div 365
        doy == doe - (365 * yoe + yoe \div 4 - yoe \div 100)
        mp  == (5 * doy + 2) \div 153
        m   == IF mp < 10 THEN mp + 3 ELSE mp - 9
    IN  [year  |-> yoe + era * 400 + (IF m <= 2 THEN 1 ELSE 0),
         month |-> m,
         day   |-> doy - (153 * mp + 2) \div 5 + 1]

\* dt.year, dt.month, dt.day and dt.hour of
\* datetime.fromtimestamp(ms / 1000, tz=timezone.utc).
utc_fields(ms) ==
    LET date == civil_from_days(ms \div 86400000)
    IN  [year |-> date.year, month |-> date.month, day |-> date.day,
         hour |-> (ms % 86400000) \div 3600000]

\* The format specification 02d on a number below 100: its two digits.
format_02d(n) == <<n \div 10, n % 10>>

\* The time the key is derived from, in milliseconds.
key_time(rec, clock) ==
    IF ~Has(rec, "timestamp") THEN 0
    ELSE IF IsNumber(rec.timestamp) THEN rec.timestamp.v
    ELSE clock * 1000

\* The string _get_partition_key returns, by its parts:
\* f"{exchange}/{symbol}/year={year}/month={month:02d}/day={day:02d}/hour={hour:02d}".
partition_key_string(rec, clock) ==
    LET dt == utc_fields(key_time(rec, clock))
    IN  [exchange |-> GetOrUnknown(rec, "exchange"),
         symbol   |-> GetOrUnknown(rec, "symbol"),
         year     |-> dt.year,
         month    |-> format_02d(dt.month),
         day      |-> format_02d(dt.day),
         hour     |-> format_02d(dt.hour)]

\* One call of _get_partition_key.
get_partition_key_call(rec, clock) ==
    IF partition_key_raises(rec) THEN [outcome |-> "raise"]
    ELSE [outcome |-> "return", key |-> partition_key_string(rec, clock)]

\* The keys of the partitions dict of _flush_buffer, in insertion order: the
\* order in which the buffer first shows each key.
RECURSIVE PartitionOrder(_, _, _, _)
PartitionOrder(buf, clock, i, acc) ==
    IF i > Len(buf) THEN acc
    ELSE LET k == get_partition_key(buf[i].data, clock)
         IN  IF \E j \in 1..Len(acc) : acc[j] = k
             THEN PartitionOrder(buf, clock, i + 1, acc)
             ELSE PartitionOrder(buf, clock, i + 1, Append(acc, k))

\* partitions[partition_key]: the buffered records of one key, in buffer order.
PartitionRecords(buf, clock, k) ==
    SelectSeq(buf, LAMBDA r : get_partition_key(r.data, clock) = k)

\* file_key = f"{raw_prefix}{partition_key}/data_{timestamp}.json" with
\* timestamp = int(time.time()).
file_key(k, clock) == [partition |-> k, timestamp |-> clock]

\* The body _write_partition uploads.
ObjectBody(k, recs, clock) ==
    [records |-> recs, count |-> Len(recs), timestamp |-> clock, partition |-> k]

\* The put_object calls of one _flush_buffer on a non-empty buffer. fail is the
\* position of the partition whose put_object raises (0: none does); the
\* exception leaves the loop, so the partitions after it are not written.
FlushWrites(buf, clock, fail) ==
    LET parts == PartitionOrder(buf, clock, 1, <<>>)
        last  == IF fail = 0 THEN Len(parts) ELSE fail
    IN  [i \in 1..last |->
            [key  |-> file_key(parts[i], clock),
             body |-> ObjectBody(parts[i], PartitionRecords(buf, clock, parts[i]), clock),
             ok   |-> i # fail]]

\* The bucket after a sequence of put_object calls: a successful put stores
\* the body under its key, replacing what the key held.
RECURSIVE PutObjects(_, _, _)
PutObjects(objects, writes, i) ==
    IF i > Len(writes) THEN objects
    ELSE IF writes[i].ok
    THEN PutObjects([k \in DOMAIN objects \cup {writes[i].key} |->
                        IF k = writes[i].key THEN writes[i].body ELSE objects[k]],
                    writes, i + 1)
    ELSE PutObjects(objects, writes, i + 1)

\* _flush_buffer on writer state wr = [buffer, objects, log]: nothing on an
\* empty buffer; otherwise the writes, and records_buffer.clear() only when no
\* write raised (the except clause logs and leaves the buffer as it is). A
\* key derivation that raises ends in the same except clause before any write.
flush_buffer(wr, clock, fail) ==
    IF wr.buffer = <<>> THEN wr
    ELSE IF \E i \in 1..Len(wr.buffer) : partition_key_raises(wr.buffer[i].data)
    THEN wr
    ELSE LET writes == FlushWrites(wr.buffer, clock, fail)
         IN  [buffer  |-> IF fail = 0 THEN <<>> ELSE wr.buffer,
              objects |-> PutObjects(wr.objects, writes, 1),
              log     |-> wr.log \o writes]

\* add_record flushing only a buffer that holds more than batch_size records.
add_record_LateFlush(wr, r, clock, fail) ==
    LET w1 == [wr EXCEPT !.buffer = Append(@, r)]
    IN  IF Len(w1.buffer) > s3_batch_size
        THEN flush_buffer(w1, clock, fail)
        ELSE w1

\* add_record: append, and _flush_buffer once the buffer holds batch_size
\* records or more.
add_record(wr, r, clock, fail) ==
    LET w1 == [wr EXCEPT !.buffer = Append(@, r)]
    IN  IF Len(w1.buffer) >= s3_batch_size
        THEN flush_buffer(w1, clock, fail)
        ELSE w1

\* The number of put_object calls the next _flush_buffer of a buffer makes
\* when none raises.
NumPartitions(buf, clock) == Len(PartitionOrder(buf, clock, 1, <<>>))

Writer == [buffer |-> s3_records_buffer, objects |-> s3_objects, log |-> s3_log]

\* S3Writer.__init__ with the batch size read from S3_BATCH_SIZE, an empty
\* bucket and the clock at its start.
WriterInit(sizes) ==
    /\ s3_batch_size \in sizes
    /\ s3_records_buffer = <<>>
    /\ s3_objects = <<>>
    /\ s3_log = <<>>
    /\ s3_clock = 1000
    /\ s3_nextId = 1
    /\ s3_flush_calls = 0
    /\ s3_last = "none"
    /\ pk_record = [f \in {"exchange", "symbol", "timestamp"} |-> Absent]
    /\ pk_clock = 1000
    /\ pk_result = [outcome |-> "none"]

\* The records given to the writer: two exchanges, and a timestamp int()
\* refuses next to one it parses; and a record whose timestamp is beyond the
\* platform's time_t.
WriterInputs ==
    [exchange : {Str("binance"), Str("coinbase")}, symbol : {Str("btcusdt")},
     timestamp : {Num(1000000), BadStr}, price : {Num(50000000)}, volume : {Num(1500)}]
    \cup {[exchange |-> Str("binance"), symbol |-> Str("btcusdt"),
           timestamp |-> BeyondTimeT, price |-> Num(50000000), volume |-> Num(1500)]}

\* The records given to _get_partition_key on its own.
PartitionKeyInputs ==
    [exchange : {Absent, Str("binance")}, symbol : {Absent, Str("btcusdt")},
     timestamp : {Absent, BadStr, Null, NumStr(3600000), BeyondTimeT, YearOutOfRange}
                 \cup {Num(t) : t \in {-1, 0, 3599999, 3600000, 1000000, 86400000,
                                       824400000, 2000000000}}]

\* One call of _get_partition_key, on the record and at the clock drawn.
GetPartitionKey ==
    /\ pk_result = [outcome |-> "none"]
    /\ pk_result' = get_partition_key_call(pk_record, pk_clock)
    /\ UNCHANGED <<pk_record, pk_clock, s3_batch_size, s3_records_buffer, s3_objects,
                   s3_log, s3_clock, s3_nextId, s3_flush_calls, s3_last, validatorVars,
                   enricherVars, handlerVars, producerVars, streamerVars>>

\* A caller adds a record; fail picks the outcome of the put_object calls.
AddRecord ==
    /\ s3_nextId <= MaxWriterRecords
    /\ \E d \in WriterInputs :
         LET r   == [id |-> s3_nextId, data |-> d]
             buf == Append(s3_records_buffer, r)
         IN  \E fail \in 0..NumPartitions(buf, s3_clock) :
                LET w == add_record(Writer, r, s3_clock, fail)
                IN  /\ s3_records_buffer' = w.buffer
                    /\ s3_objects' = w.objects
                    /\ s3_log' = w.log
    /\ s3_nextId' = s3_nextId + 1
    /\ s3_last' = "add"
    /\ UNCHANGED <<s3_batch_size, s3_clock, s3_flush_calls, pk_record, pk_clock,
                   pk_result, validatorVars, enricherVars,
                   handlerVars, producerVars, streamerVars>>

\* A caller calls flush().
WriterFlush ==
    /\ s3_flush_calls < MaxWriterFlushes
    /\ \E fail \in 0..NumPartitions(s3_records_buffer, s3_clock) :
         LET w == flush_buffer(Writer, s3_clock, fail)
         IN  /\ s3_records_buffer' = w.buffer
             /\ s3_objects' = w.objects
             /\ s3_log' = w.log
    /\ s3_flush_calls' = s3_flush_calls + 1
    /\ s3_last' = "flush"
    /\ UNCHANGED <<s3_batch_size, s3_clock, s3_nextId, pk_record, pk_clock,
                   pk_result, validatorVars, enricherVars,
                   handlerVars, producerVars, streamerVars>>

\* A second passes between two calls of the writer.
Tick ==
    /\ s3_clock < 1000 + MaxClockTicks
    /\ s3_clock' = s3_clock + 1
    /\ UNCHANGED <<s3_batch_size, s3_records_buffer, s3_objects, s3_log, s3_nextId,
                   s3_flush_calls, s3_last, pk_record, pk_clock, pk_result,
                   validatorVars, enricherVars, handlerVars,
                   producerVars,
                   streamerVars>>

(***************************************************************************)
(* CloudWatchMetrics and lambda_handler. One step of the handler is one    *)
(* iteration of its for loop, or everything after the loop. sink is what   *)
(* put_metric_data does during the step: "ok", "client_error" (a           *)
(* ClientError, which _publish_metrics catches) or "other_error" (any      *)
(* other exception, which it does not).                                    *)
(***************************************************************************)
\* CloudWatchMetrics.max_buffer_size.
max_buffer_size == 20

Sinks == {"ok", "client_error", "other_error"}

\* _publish_metrics: nothing on an empty buffer; the buffer is cleared only
\* when put_metric_data returned.
publish_metrics(ms, sink) ==
    IF ms.raised \/ ms.buffer = <<>> THEN ms
    ELSE IF sink = "ok"
    THEN [ms EXCEPT !.calls = @ + 1, !.published = @ + Len(ms.buffer), !.buffer = <<>>]
    ELSE IF sink = "client_error"
    THEN [ms EXCEPT !.calls = @ + 1, !.refused = @ + 1]
    ELSE [ms EXCEPT !.calls = @ + 1, !.refused = @ + 1, !.raised = TRUE]

\* record_metric: append, and publish once the buffer holds max_buffer_size
\* metrics or more. Nothing runs once an exception is on its way (raised).
record_metric(ms, name, sink) ==
    IF ms.raised THEN ms
    ELSE LET m1 == [ms EXCEPT !.buffer = Append(@, name)]
         IN  IF Len(m1.buffer) >= max_buffer_size THEN publish_metrics(m1, sink) ELSE m1

\* A payload base64 or json.loads refuses.
Undecodable == [k |-> "undecodable"]
\* A JSON list: a value that cannot be a dict key.
List == [k |-> "list"]

GoodTrade ==
    [exchange |-> Str("binance"), symbol |-> Str("btcusdt"), timestamp |-> Num(1000000),
     price |-> Num(50000000), volume |-> Num(1500)]

\* The payloads of the event records: the plain valid trade, a trade of
\* another exchange, a record the validator refuses, one on which
\* validate_record raises, one on which enrich_record raises, and one that
\* does not decode.
FaultyPayloads ==
    {Undecodable,
     [GoodTrade EXCEPT !.exchange = Str("coinbase")],
     [GoodTrade EXCEPT !.price = Num(0)],
     [GoodTrade EXCEPT !.exchange = Num(7)],
     [GoodTrade EXCEPT !.symbol = List]}

Descriptor(id, reason) == [recordId |-> id, reason |-> reason]

\* The except clause of the per-record try, for record id, with the writer
\* and the metrics as the try left them: invalid_records += 1, then
\* record['recordId'] for the log line and the descriptor. Without that key the
\* KeyError leaves the loop.
on_record_error(hs, id, wr, ms) ==
    LET h1 == [hs EXCEPT !.invalid = @ + 1, !.writer = wr,
                         !.metrics = [ms EXCEPT !.raised = FALSE],
                         !.raised = Append(@, id)]
    IN  IF h_has_record_id
        THEN [h1 EXCEPT !.failed = Append(@, Descriptor(id, "Processing error"))]
        ELSE [h1 EXCEPT !.abort = TRUE]

\* The body of the for loop on one record of the event, at clock (seconds).
process_record(hs, payload, clock, fail, sink) ==
    LET id == hs.total + 1
        h1 == [hs EXCEPT !.total = id]
    IN  IF payload = Undecodable
        THEN on_record_error(h1, id, h1.writer, h1.metrics)
        ELSE LET res == validate_record(payload, clock * 1000)
             IN  IF res.outcome = "raise"
                 THEN on_record_error(h1, id, h1.writer, h1.metrics)
                 ELSE IF res.accepted
                 THEN LET h2 == [h1 EXCEPT !.passed = @ \cup {id}]
                      IN  IF enrich_raises(payload)
                          THEN on_record_error(h2, id, h2.writer, h2.metrics)
                          ELSE LET en == enrich_record(h2.history, e_max_history_size,
                                                       payload)
                                   wr == add_record(h2.writer,
                                                    [id |-> id, data |-> payload,
                                                     derived |-> en.derived],
                                                    clock, fail)
                                   h3 == [h2 EXCEPT !.valid = @ + 1,
                                                    !.history = en.history]
                                   m1 == record_metric(h3.metrics, "RecordsProcessed", sink)
                                   m2 == record_metric(m1, "DataQualityScore", sink)
                               IN  IF m2.raised
                                   THEN on_record_error(h3, id, wr, m2)
                                   ELSE [h3 EXCEPT !.writer = wr, !.metrics = m2]
                 ELSE LET h2 == [h1 EXCEPT !.invalid = @ + 1]
                          m1 == record_metric(h2.metrics, "InvalidRecords", sink)
                      IN  IF m1.raised
                          THEN on_record_error(h2, id, h2.writer, m1)
                          ELSE IF ~h_dlq_enabled
                          THEN [h2 EXCEPT !.metrics = m1]
                          ELSE IF h_has_record_id
                          THEN [h2 EXCEPT !.metrics = m1,
                                          !.failed = Append(@, Descriptor(id, "Data quality"))]
                          ELSE on_record_error(h2, id, h2.writer, m1)

\* An alert from an error rate of 10% on.
high_error_rate_Inclusive(hs) == hs.total > 0 /\ 10 * hs.invalid >= hs.total

\* invalid_records / total_records > 0.1, for total_records > 0.
high_error_rate(hs) == hs.total > 0 /\ 10 * hs.invalid > hs.total

\* What becomes of the publish of one _send_alert call: SNS_TOPIC_ARN is not
\* set and nothing is published, SNS accepts the message, or the call raises.
Deliveries == IF h_sns_topic_arn THEN {"published", "failed"} ELSE {"no_topic"}

NoAlert == [message |-> "none", delivery |-> "none", raised |-> FALSE]

\* _send_alert: its except clause logs whatever the publish raises.
send_alert(message, delivery) ==
    [message |-> message, delivery |-> delivery, raised |-> FALSE]

\* After the loop: s3_writer.flush(), metrics.flush(), the four final metrics
\* and the alert. An exception of the metrics sink reaches the outer except
\* clause.
finish(hs, clock, fail, sink) ==
    LET wr == flush_buffer(hs.writer, clock, fail)
        m0 == publish_metrics(hs.metrics, sink)
        m1 == record_metric(m0, "ProcessingTime", sink)
        m2 == record_metric(m1, "TotalRecords", sink)
        m3 == record_metric(m2, "ValidRecords", sink)
        m4 == record_metric(m3, "InvalidRecords", sink)
    IN  [hs EXCEPT !.writer = wr, !.metrics = [m4 EXCEPT !.raised = FALSE],
                   !.abort = m4.raised]

Handler ==
    [total |-> h_total_records, valid |-> h_valid_records, invalid |-> h_invalid_records,
     failed |-> h_failed_records, passed |-> h_passed, raised |-> h_raised,
     history |-> e_price_history,
     writer |-> Writer,
     metrics |-> [buffer |-> metrics_buffer, calls |-> cw_calls,
                  published |-> cw_published, refused |-> cw_refused,
                  raised |-> FALSE],
     abort |-> FALSE]

\* The state of the invocation after a step that ended in state hs; pc is
\* where the handler is when the step did not raise.
HandlerStep(hs, pc, alert) ==
    /\ h_total_records' = hs.total
    /\ h_valid_records' = hs.valid
    /\ h_invalid_records' = hs.invalid
    /\ h_failed_records' = hs.failed
    /\ h_passed' = hs.passed
    /\ h_raised' = hs.raised
    /\ e_price_history' = hs.history
    /\ s3_records_buffer' = hs.writer.buffer
    /\ s3_objects' = hs.writer.objects
    /\ s3_log' = hs.writer.log
    /\ metrics_buffer' = hs.metrics.buffer
    /\ cw_calls' = hs.metrics.calls
    /\ cw_published' = hs.metrics.published
    /\ cw_refused' = hs.metrics.refused
    /\ h_pc' = IF hs.abort \/ alert.raised THEN "raised" ELSE pc
    /\ IF hs.abort \/ alert.raised
       THEN \E d \in Deliveries : h_alert' = send_alert("Lambda function failed", d)
       ELSE h_alert' = alert

\* The put_object calls that raised so far.
StorageFaults == Cardinality({i \in 1..Len(s3_log) : ~s3_log[i].ok})

\* The choices of fail for a flush of buffer buf.
Fails(buf) ==
    IF StorageFaults < MaxStorageFaults THEN 0..NumPartitions(buf, s3_clock) ELSE {0}

\* The records of the event taken so far that are not the plain valid trade.
FaultyTaken == Cardinality({i \in 1..Len(h_event) : h_event[i] # GoodTrade})

\* No invocation: the specifications that do not run the handler.
HandlerInit ==
    /\ h_pc = "idle"
    /\ h_has_record_id = TRUE
    /\ h_dlq_enabled = FALSE
    /\ h_sns_topic_arn = FALSE
    /\ h_event = <<>>
    /\ h_total_records = 0
    /\ h_valid_records = 0
    /\ h_invalid_records = 0
    /\ h_failed_records = <<>>
    /\ h_passed = {}
    /\ h_raised = <<>>
    /\ h_alert = NoAlert
    /\ metrics_buffer = <<>>
    /\ cw_calls = 0
    /\ cw_published = 0
    /\ cw_refused = 0

\* One iteration of the for loop on the record with this payload.
ProcessPayload(payload) ==
    /\ h_pc = "loop"
    /\ h_total_records < MaxEventRecords
    /\ h_event' = Append(h_event, payload)
    /\ \E fail \in Fails(IF payload = Undecodable THEN s3_records_buffer
                           ELSE Append(s3_records_buffer,
                                       [id |-> h_total_records + 1, data |-> payload])),
          sink \in Sinks :
         HandlerStep(process_record(Handler, payload, s3_clock, fail, sink),
                     "loop", h_alert)
    /\ UNCHANGED <<h_has_record_id, h_dlq_enabled, h_sns_topic_arn, s3_batch_size, s3_clock, s3_nextId,
                   s3_flush_calls, s3_last, pk_record, pk_clock, pk_result,
                   e_max_history_size, e_result, e_supplied,
                   e_calls, validatorVars, producerVars, streamerVars>>

\* One iteration of the for loop: the next record of event['Records'].
ProcessRecord ==
    \E payload \in {GoodTrade} \cup FaultyPayloads :
        /\ payload # GoodTrade => FaultyTaken < MaxFaultyRecords
        /\ ProcessPayload(payload)

\* The trades of one exchange, one symbol and one hour, at three prices.
ValidTrades ==
    {[GoodTrade EXCEPT !.price = Num(p)] : p \in {50000000, 50100000, 49950000}}

\* One iteration of the for loop on a valid trade, in an event of at most
\* MaxPipelineRecords records.
ProcessTrade ==
    /\ h_total_records < MaxPipelineRecords
    /\ \E payload \in ValidTrades : ProcessPayload(payload)

\* The event has no further record: the code after the loop, to the return
\* statement or to the outer except clause.
Finish ==
    /\ h_pc = "loop"
    /\ \E fail \in Fails(s3_records_buffer), sink \in Sinks, d \in Deliveries :
         LET hs == finish(Handler, s3_clock, fail, sink)
         IN  HandlerStep(hs, "returned",
                         IF ~hs.abort /\ high_error_rate(hs)
                         THEN send_alert("High error rate detected", d)
                         ELSE NoAlert)
    /\ UNCHANGED <<h_has_record_id, h_dlq_enabled, h_sns_topic_arn, h_event, s3_batch_size, s3_clock,
                   s3_nextId, s3_flush_calls, s3_last, pk_record, pk_clock, pk_result,
                   e_max_history_size, e_result,
                   e_supplied, e_calls, validatorVars, producerVars, streamerVars>>

(***************************************************************************)
(* The specifications of the consumer side.                                *)
(***************************************************************************)
NoResult == [outcome |-> "none"]

\* No call of validate_record: the specifications of the producer side.
ValidatorInit ==
    /\ v_record = [f \in {"exchange", "symbol", "timestamp", "price", "volume"} |-> Absent]
    /\ v_now = 0
    /\ v_result = NoResult
    /\ v_quality_threshold = quality_threshold

\* The consumer side before any invocation: the specifications of the
\* producer side.
ConsumerInit ==
    /\ ValidatorInit /\ EnricherInit({max_history_size})
    /\ WriterInit({MaxS3BatchSize}) /\ HandlerInit

\* One call of validate_record, on the record and at the clock drawn.
Validate ==
    /\ v_result = NoResult
    /\ v_result' = validate_record(v_record, v_now)
    /\ UNCHANGED <<v_record, v_now, v_quality_threshold, producerVars, streamerVars,
                   enricherVars, writerVars, handlerVars>>

\* Any decoded record, at any clock of the model.
InitValidator ==
    /\ ProducerInit({MaxBatchSize}, {MaxMaxRetries}) /\ StreamerInit /\ ConnectorInit
    /\ EnricherInit({max_history_size}) /\ WriterInit({MaxS3BatchSize}) /\ HandlerInit
    /\ v_record \in Records
    /\ v_now \in Clocks
    /\ v_result = NoResult
    /\ v_quality_threshold = quality_threshold

NextValidator == Validate

SpecValidator == InitValidator /\ [][NextValidator]_vars

\* The validator under every threshold of the model: __init__ reads
\* DATA_QUALITY_THRESHOLD from the environment.
InitThreshold ==
    /\ ProducerInit({MaxBatchSize}, {MaxMaxRetries}) /\ StreamerInit /\ ConnectorInit
    /\ EnricherInit({max_history_size}) /\ WriterInit({MaxS3BatchSize}) /\ HandlerInit
    /\ v_record \in Records
    /\ v_now \in Clocks
    /\ v_result = NoResult
    /\ v_quality_threshold \in Thresholds

NextThreshold == Validate

SpecThreshold == InitThreshold /\ [][NextThreshold]_vars

\* One DataEnricher used by one caller: the capacity __init__ assigns and a
\* smaller one, any sequence of calls within the bounds.
InitEnricher ==
    /\ ProducerInit({MaxBatchSize}, {MaxMaxRetries}) /\ StreamerInit /\ ConnectorInit /\ ValidatorInit
    /\ EnricherInit({MaxHistorySize, max_history_size})
    /\ WriterInit({MaxS3BatchSize}) /\ HandlerInit

NextEnricher == Enrich

SpecEnricher == InitEnricher /\ [][NextEnricher]_vars

\* One S3Writer used by one caller: every batch size, any sequence of
\* add_record and flush, any outcome of the put_object calls.
InitWriter ==
    /\ ProducerInit({MaxBatchSize}, {MaxMaxRetries}) /\ StreamerInit /\ ConnectorInit /\ ValidatorInit
    /\ EnricherInit({max_history_size}) /\ WriterInit(1..MaxS3BatchSize) /\ HandlerInit

NextWriter == AddRecord \/ WriterFlush \/ Tick

SpecWriter == InitWriter /\ [][NextWriter]_vars

\* _get_partition_key as a function of the record and the clock: any record
\* of the model, at two clocks.
InitPartitionKey ==
    /\ ProducerInit({MaxBatchSize}, {MaxMaxRetries}) /\ StreamerInit /\ ConnectorInit /\ ValidatorInit
    /\ EnricherInit({max_history_size}) /\ HandlerInit
    /\ s3_batch_size = MaxS3BatchSize
    /\ s3_records_buffer = <<>>
    /\ s3_objects = <<>>
    /\ s3_log = <<>>
    /\ s3_clock = 1000
    /\ s3_nextId = 1
    /\ s3_flush_calls = 0
    /\ s3_last = "none"
    /\ pk_record \in PartitionKeyInputs
    /\ pk_clock \in {1000, 90000}
    /\ pk_result = [outcome |-> "none"]

NextPartitionKey == GetPartitionKey

SpecPartitionKey == InitPartitionKey /\ [][NextPartitionKey]_vars

\* One invocation of lambda_handler: its components as lines 382-391 build
\* them, any event within the bounds, with or without record ids, DLQ_ENABLED
\* set or not, any outcome of the calls to S3 and CloudWatch.
InitHandler ==
    /\ ProducerInit({MaxBatchSize}, {MaxMaxRetries}) /\ StreamerInit /\ ConnectorInit /\ ValidatorInit
    /\ EnricherInit({max_history_size}) /\ WriterInit({MaxS3BatchSize, 100})
    /\ h_pc = "loop"
    /\ h_has_record_id \in BOOLEAN
    /\ h_dlq_enabled \in BOOLEAN
    /\ h_sns_topic_arn = FALSE
    /\ h_event = <<>>
    /\ h_total_records = 0
    /\ h_valid_records = 0
    /\ h_invalid_records = 0
    /\ h_failed_records = <<>>
    /\ h_passed = {}
    /\ h_raised = <<>>
    /\ h_alert = NoAlert
    /\ metrics_buffer = <<>>
    /\ cw_calls = 0
    /\ cw_published = 0
    /\ cw_refused = 0

NextHandler == ProcessRecord \/ Finish

SpecHandler == InitHandler /\ [][NextHandler]_vars

\* One invocation of lambda_handler with or without an alert topic
\* (SNS_TOPIC_ARN), the writer's batch size and DLQ_ENABLED at their defaults.
InitAlert ==
    /\ ProducerInit({MaxBatchSize}, {MaxMaxRetries}) /\ StreamerInit /\ ConnectorInit /\ ValidatorInit
    /\ EnricherInit({max_history_size}) /\ WriterInit({100})
    /\ h_pc = "loop"
    /\ h_has_record_id \in BOOLEAN
    /\ h_dlq_enabled = FALSE
    /\ h_sns_topic_arn \in BOOLEAN
    /\ h_event = <<>>
    /\ h_total_records = 0
    /\ h_valid_records = 0
    /\ h_invalid_records = 0
    /\ h_failed_records = <<>>
    /\ h_passed = {}
    /\ h_raised = <<>>
    /\ h_alert = NoAlert
    /\ metrics_buffer = <<>>
    /\ cw_calls = 0
    /\ cw_published = 0
    /\ cw_refused = 0

NextAlert == ProcessRecord \/ Finish

SpecAlert == InitAlert /\ [][NextAlert]_vars

\* One invocation of lambda_handler on an event of valid trades of one
\* exchange, symbol and hour, for every batch size of the writer up to the
\* length of the event.
InitPipeline ==
    /\ ProducerInit({MaxBatchSize}, {MaxMaxRetries}) /\ StreamerInit /\ ConnectorInit /\ ValidatorInit
    /\ EnricherInit({max_history_size}) /\ WriterInit(1..MaxPipelineRecords)
    /\ h_pc = "loop"
    /\ h_has_record_id \in BOOLEAN
    /\ h_dlq_enabled \in BOOLEAN
    /\ h_sns_topic_arn = FALSE
    /\ h_event = <<>>
    /\ h_total_records = 0
    /\ h_valid_records = 0
    /\ h_invalid_records = 0
    /\ h_failed_records = <<>>
    /\ h_passed = {}
    /\ h_raised = <<>>
    /\ h_alert = NoAlert
    /\ metrics_buffer = <<>>
    /\ cw_calls = 0
    /\ cw_published = 0
    /\ cw_refused = 0

NextPipeline == ProcessTrade \/ Finish

SpecPipeline == InitPipeline /\ [][NextPipeline]_vars

(***************************************************************************)
(* The quality scoring of a connector applied to one message.              *)
(***************************************************************************)
InitQualityScore ==
    /\ ProducerInit({MaxBatchSize}, {MaxMaxRetries}) /\ StreamerInit /\ ConsumerInit
    /\ q_connector \in Workers
    /\ q_data \in QualityInputs(q_connector)
    /\ q_result = NoScore

NextQualityScore == CalculateQualityScore

SpecQualityScore == InitQualityScore /\ [][NextQualityScore]_vars

(***************************************************************************)
(* The client used by one caller at a time (the unit tests' use): every    *)
(* configuration, any sequence of put_record and flush, any send outcome.  *)
(***************************************************************************)
InitClient ==
    ProducerInit(1..MaxBatchSize, 0..MaxMaxRetries) /\ StreamerInit /\ ConnectorInit /\ ConsumerInit

NextClient ==
    \E w \in Workers :
        \/ AllIdle /\ PutRecord(w)
        \/ AllIdle /\ Flush(w)
        \/ CallStep(w)

SpecClient == InitClient /\ [][NextClient]_vars

\* A call in progress is carried on: put_records answers or raises (the
\* transport's timeouts), and time.sleep ends.
FairSpecClient == SpecClient /\ \A w \in Workers : WF_vars(CallStep(w))

(***************************************************************************)
(* The client shared by the worker threads of the load test: each thread   *)
(* calls put_record; the threads interleave between the steps of a call.   *)
(***************************************************************************)
InitThreads ==
    ProducerInit({MaxBatchSize}, {MaxMaxRetries}) /\ StreamerInit /\ ConnectorInit /\ ConsumerInit

NextThreads ==
    \E w \in Workers :
        \/ PutRecord(w)
        \/ CallStep(w)

SpecThreads == InitThreads /\ [][NextThreads]_vars

(***************************************************************************)
(* The program as main() runs it: the orchestrator, its connector tasks on *)
(* one event loop, and the producer they share. A call of put_record is    *)
(* synchronous: no task runs while one of them is inside it.               *)
(***************************************************************************)
Init == ProducerInit({MaxBatchSize}, {MaxMaxRetries}) /\ StreamerInit /\ ConnectorInit /\ ConsumerInit

Next ==
    \/ Start
    \/ Signal
    \/ StartReturns
    \/ \E c \in Workers :
        \/ LoopCheck(c)
        \/ ConnectOk(c)
        \/ ConnectFail(c)
        \/ SubscribeOk(c)
        \/ SubscribeFail(c)
        \/ SignalInFlight(c)
        \/ MessageStop(c)
        \/ MessageEnqueue(c)
        \/ MessageDrop(c)
        \/ MessageRaise(c)
        \/ StreamClosed(c)
        \/ StreamError(c)
        \/ SleepDone(c)
        \/ CallStep(c)

Spec == Init /\ [][Next]_vars

\* The event loop runs a task whenever one can run: a pending connect,
\* subscribe or read returns or raises, a sleep ends, a call of put_record is
\* carried to its end, and gather returns once every task has ended.
FairSpec == Spec /\ WF_vars(Next)

(***************************************************************************)
(* Properties                                                              *)
(***************************************************************************)

\* C1: when the orchestrator has returned after a clean shutdown (the flag
\* cleared, every task ended, start() returned), flush() has been called on
\* the producer exactly once and no record is left in its buffer.
C1_FlushOnceOnShutdown ==
    (phase = "returned" /\ ~running) =>
        (flush_calls = 1 /\ records_buffer = <<>>)

\* C2: the buffer operations of the shared client are a critical section: no
\* append takes effect between the send of a batch and the clearing of the
\* buffer, so no record is in two sent batches and the sent count is the
\* number of records the stream took from the batches sent.
C2_CriticalSection ==
    /\ \A w \in Workers : call[w].pc = "await" => call[w].inflight = records_buffer
    /\ \A r \in RecordIds : sendCount[r] <= 1
    /\ total_records_sent = delivered

\* C3: a streaming error that follows the delivery of at least one record on
\* the connection is counted as failure number 1: the task waits
\* min(2 ** 1, max_reconnect_delay) with its retry counter at 1.
C3_RetryResetAfterDelivery ==
    \A c \in Workers :
        (task[c].loc = "sleeping" /\ task[c].had_delivery) =>
            (task[c].retry_count = 1 /\ task[c].delay = Min(2 ^ 1, max_reconnect_delay))

\* C4: a flush of n > 0 records with max_retries = N >= 1 whose every send
\* raised ClientError made exactly N send attempts, dropped the batch, added n
\* to the failed count, left the sent count alone, emptied the buffer and
\* returned False.
C4_FlushDropsAfterRetries ==
    \A w \in Workers :
        (/\ call[w].pc = "ret"
         /\ call[w].flushing
         /\ max_retries >= 1
         /\ call[w].outcome = "client_error") =>
            /\ call[w].sends = max_retries
            /\ failed_records = call[w].failed0 + call[w].n0
            /\ total_records_sent = call[w].sent0
            /\ records_buffer = <<>>
            /\ call[w].ret = "false"

\* A flush of two records or more that gave up after the last of several
\* attempts.
C4_Witness ==
    \E w \in Workers :
        /\ call[w].pc = "ret"
        /\ call[w].outcome = "client_error"
        /\ call[w].n0 >= 2
        /\ call[w].sends >= 2
        /\ call[w].sends = max_retries

\* C5: whenever put_record has returned, whatever the sends it triggered did
\* and whatever max_retries is, the buffer holds fewer than batch_size records.
C5_BufferBelowBatchSize ==
    \A w \in Workers :
        (call[w].pc = "ret" /\ call[w].kind = "put") =>
            Len(records_buffer) < batch_size

\* C6: a send that the stream answered with k rejected records of n
\* (0 < k <= n) adds k to the failed count and n - k to the sent count, empties
\* the buffer and returns True; no record is sent to the stream a second time.
C6_PartialRejection ==
    /\ \A w \in Workers :
        (call[w].pc = "ret" /\ call[w].outcome = "ok" /\ call[w].rejected > 0) =>
            /\ failed_records = call[w].failed0 + call[w].rejected
            /\ total_records_sent = call[w].sent0 + (call[w].n0 - call[w].rejected)
            /\ records_buffer = <<>>
            /\ call[w].ret = "true"
    /\ \A r \in RecordIds : sendCount[r] <= 1

\* A batch of two of which the stream rejected one, after a failed attempt.
C6_Witness ==
    \E w \in Workers :
        /\ call[w].pc = "ret"
        /\ call[w].outcome = "ok"
        /\ call[w].n0 = 2
        /\ call[w].rejected = 1
        /\ call[w].sends = 2

\* The sum of the delays 2^0, ..., 2^(n-2): what n attempts can sleep.
RECURSIVE BackoffBudget(_)
BackoffBudget(n) == IF n < 2 THEN 0 ELSE 2 ^ (n - 2) + BackoffBudget(n - 1)

\* C7: every call of put_record or flush ends; it makes at most max_retries
\* send attempts and sleeps at most 2^0 + ... + 2^(max_retries-2) seconds.
C7_CallsTerminate ==
    /\ [](\A w \in Workers :
            /\ call[w].sends <= max_retries
            /\ call[w].slept <= BackoffBudget(max_retries))
    /\ \A w \in Workers : (call[w].pc \in {"send", "await"}) ~> (call[w].pc = "ret")

\* A call that used every attempt and slept the whole budget.
C7_Witness ==
    \E w \in Workers :
        /\ call[w].pc = "ret"
        /\ max_retries >= 2
        /\ call[w].sends = max_retries
        /\ call[w].slept = BackoffBudget(max_retries)

\* The float a present field parses to is a number above (at or above) zero.
PricePositive(rec) == IsNumber(rec.price) /\ rec.price.v > 0
VolumeNonNegative(rec) == IsNumber(rec.volume) /\ rec.volume.v >= 0
Accepted(res) == res.outcome = "return" /\ res.accepted

\* C8: every record validate_record accepts (default configuration) carries a
\* price field with value > 0 and a volume field with value >= 0.
C8_AcceptedHasPriceAndVolume ==
    Accepted(v_result) => (PricePositive(v_record) /\ VolumeNonNegative(v_record))

\* C9: every record validate_record accepts has a timestamp that parses as an
\* integer and lies within the tolerance of the clock of the validation.
C9_AcceptedTimestampInWindow ==
    Accepted(v_result) =>
        /\ IsNumber(v_record.timestamp)
        /\ Abs(v_now - v_record.timestamp.v) <= timestamp_tolerance * 1000

WrittenIds(w) == {w.body.records[i].id : i \in 1..Len(w.body.records)}

\* C11: a partition whose commit failed is not retried: no later put_object of
\* the writer, from a later add_record or flush, carries a record of the
\* failed partition.
C11_FailedCommitNotRetried ==
    \A i, j \in 1..Len(s3_log) :
        (i < j /\ ~s3_log[i].ok) =>
            WrittenIds(s3_log[i]) \cap WrittenIds(s3_log[j]) = {}

\* C12: no two commits of the writer, in one flush or in different flushes,
\* use the same object key: a commit never replaces the object of an earlier
\* commit, also when both happen within one clock second.
C12_ObjectKeysUnique ==
    \A i, j \in 1..Len(s3_log) :
        (i < j /\ s3_log[i].ok /\ s3_log[j].ok) => s3_log[i].key # s3_log[j].key

\* C13: whatever the put_object calls did, the buffer holds fewer than
\* batch_size records when add_record has returned and is empty when flush has
\* returned.
C13_WriterBufferBounded ==
    /\ s3_last = "add" => Len(s3_records_buffer) < s3_batch_size
    /\ s3_last = "flush" => s3_records_buffer = <<>>

\* The record ids of the descriptors of processing errors, in list order.
ProcessingErrorIds(failed) ==
    LET d == SelectSeq(failed, LAMBDA x : x.reason = "Processing error")
    IN  [i \in 1..Len(d) |-> d[i].recordId]

\* C14: a record whose decoding, validation, enrichment or metric recording
\* raises does not abort the invocation: the handler stays in its loop with one
\* more descriptor, for that record, and the list it returns holds exactly one
\* descriptor for each record that raised, in batch order.
C14_RecordErrorsDoNotAbort ==
    /\ [][(h_pc = "loop" /\ Len(h_raised') > Len(h_raised)) =>
            /\ h_pc' = "loop"
            /\ h_failed_records' =
                  Append(h_failed_records, Descriptor(h_total_records', "Processing error"))
         ]_vars
    /\ [](h_pc = "returned" => ProcessingErrorIds(h_failed_records) = h_raised)

\* C15: when lambda_handler has returned, every record that passed validation
\* and is not in the returned failure list is in an object that a put_object
\* call stored.
C15_StoredOrReported ==
    h_pc = "returned" =>
        \A id \in h_passed :
            \/ \E i \in 1..Len(h_failed_records) : h_failed_records[i].recordId = id
            \/ \E i \in 1..Len(s3_log) : s3_log[i].ok /\ id \in WrittenIds(s3_log[i])

\* C16: a task whose retry counter has reached the maximum makes no further
\* connect attempt and does not wait again: it is at the while condition or
\* has ended, and its only step is to end. A task that has ended is not
\* started again, and the step in which a task gives up or ends leaves the
\* task of every other connector as it is.
C16_GivesUpAtMaxRetries ==
    /\ [](\A c \in Workers :
            task[c].retry_count >= stream_max_retries =>
                /\ task[c].retry_count = stream_max_retries
                /\ task[c].loc \in {"loop", "done"})
    /\ [][\A c \in Workers :
            /\ task[c].loc = "done" => task'[c] = task[c]
            /\ (task[c].retry_count >= stream_max_retries /\ task'[c] # task[c]) =>
                  task'[c] = [task[c] EXCEPT !.loc = "done", !.prev = "none"]
            /\ (task'[c] # task[c] /\ task'[c].retry_count >= stream_max_retries) =>
                  \A d \in Workers \ {c} : task'[d] = task[d]
         ]_vars

\* One task has given up after its tenth failure and ended; the other is
\* still streaming, after a delivery.
C16_Witness ==
    \E c \in Workers, d \in Workers :
        /\ c # d
        /\ task[c].loc = "done" /\ task[c].retry_count = stream_max_retries
        /\ running /\ task[d].loc = "reading" /\ task[d].had_delivery

C18_TasksExitAfterSignal ==
    (phase = "started" /\ ~running) ~> (\A c \in Workers : task[c].loc = "done")

\* The flag is cleared while one task is reading and the other is sleeping,
\* and has ended both.
C18_Witness ==
    /\ ~running
    /\ \A c \in Workers : task[c].loc = "done"
    /\ \E c \in Workers : task[c].retry_count = 0 /\ task[c].had_delivery
    /\ \E c \in Workers : task[c].retry_count > 0

\* The messages that are no well-formed trade.
Malformed ==
    {"other_type", "invalid_json", "missing_field", "bad_number", "null_number",
     "json_list", "json_number"}

\* C19: a message that is no well-formed trade is dropped: process_message
\* returns None, and the step leaves the task (its connection, its retry
\* counter) and the producer (nothing enqueued) as they are.
C19_MalformedDropped ==
    [][\A c \in Workers : \A m \in Malformed :
          Message(c, m) =>
              /\ process_message(c, m) = "none"
              /\ task' = [task EXCEPT ![c].loc = "reading"]
              /\ UNCHANGED producerVars
      ]_vars

\* The penalties of the scoring rules, in tenths: 2 for each required field
\* absent; 3 for a price unparsable or outside [min_price, max_price]; 2 for a
\* volume unparsable or below min_volume; 1 for a timestamp further than the
\* tolerance from the clock; 2 for an exchange outside the allow-list.
RulePenalty(rec, now) ==
    2 * Cardinality({f \in {"exchange", "symbol", "timestamp", "price", "volume"} :
                        ~Has(rec, f)})
    + (IF Has(rec, "price") /\ (~Parses(rec.price) \/ ~price_in_range(rec.price))
       THEN 3 ELSE 0)
    + (IF Has(rec, "volume") /\ (~Parses(rec.volume) \/ volume_below_min(rec.volume))
       THEN 2 ELSE 0)
    + (IF IsNumber(rec.timestamp) /\ timestamp_stale(rec.timestamp, now)
       THEN 1 ELSE 0)
    + (IF Has(rec, "exchange")
          /\ ~(rec.exchange.k = "str" /\ Lower(rec.exchange.v) \in valid_exchanges)
       THEN 2 ELSE 0)

\* The float x is k tenths, up to the rounding of binary64 subtraction
\* (2^-27 here, far above the rounding and far below a tenth).
IsTenths(x, k) ==
    /\ ~x.neg \/ MagIsZero(x)
    /\ Abs(x.hi - (k * 2 ^ 27) \div 5) <= 1

\* C20: for every record, validate_record returns the score
\* max(0, 1.0 - P), P being the sum of the penalties of the scoring rules.
C20_ScoreIsOneMinusPenalties ==
    v_result # NoResult =>
        /\ v_result.outcome = "return"
        /\ LET p == RulePenalty(v_record, v_now)
           IN  IsTenths(v_result.score, IF p >= 10 THEN 0 ELSE 10 - p)

\* C21: for every record and every threshold in [0, 1], validate_record returns
\* accepted = true exactly when the score of the same result is >= the
\* threshold.
C21_AcceptedIffScoreAtThreshold ==
    v_result.outcome = "return" =>
        (v_result.accepted <=> F64Ge(v_result.score, v_quality_threshold))

\* The prices supplied so far for the symbol of the last call, the new one
\* included.
SuppliedForLast == e_supplied[e_result.symbol]

\* C22: price_change and price_change_percentage are present exactly when the
\* symbol had a history before the call and its last price was > 0; sma_5
\* exactly when the history with the new price holds 5 entries or more; sma_10
\* and volatility exactly when it holds 10 or more.
C22_DerivedOnlyFromHistory ==
    e_result.outcome = "return" =>
        LET n    == Len(SuppliedForLast)
            held == Min(n, e_max_history_size)
            d    == DOMAIN e_result.derived
            prev == n >= 2 /\ SuppliedForLast[n - 1] > 0
        IN  /\ "price_change" \in d <=> prev
            /\ "price_change_percentage" \in d <=> prev
            /\ "sma_5" \in d <=> held >= 5
            /\ "sma_10" \in d <=> held >= 10
            /\ "volatility" \in d <=> held >= 10

\* The first call for a fresh symbol, made when another symbol has a history:
\* no derived field at all.
C22_Witness ==
    /\ e_result.outcome = "return"
    /\ e_result.symbol = Str("Y")
    /\ Len(SuppliedForLast) = 1
    /\ Str("X") \in DOMAIN e_price_history
    /\ DOMAIN e_result.derived = {}

\* C23: the history of every symbol holds at most max_history_size prices and
\* is the most recent min(n, max_history_size) of the n prices supplied for
\* it, in arrival order; a call for one symbol leaves the history of every
\* other symbol as it was.
C23_HistoryIsRecentPrices ==
    /\ [](/\ DOMAIN e_price_history = DOMAIN e_supplied
          /\ \A s \in DOMAIN e_supplied :
                LET n == Len(e_supplied[s])
                    m == Min(n, e_max_history_size)
                IN  /\ Len(e_price_history[s]) <= e_max_history_size
                    /\ e_price_history[s] = SubSeq(e_supplied[s], n - m + 1, n))
    /\ [][\A s \in DOMAIN e_price_history :
            (e_result'.outcome = "return" /\ e_result'.symbol # s) =>
                e_price_history'[s] = e_price_history[s]]_vars

\* A full history took one more price.
C23_Witness ==
    /\ e_result.outcome = "return"
    /\ Len(SuppliedForLast) > e_max_history_size
    /\ Len(e_price_history[e_result.symbol]) = e_max_history_size

\* The sum of the squares of a list of prices.
SumSquares(ps) == SumSeq([i \in 1..Len(ps) |-> ps[i] * ps[i]])

\* C24: once 10 prices or more have been supplied for a symbol, sma_10 of the
\* result is the mean of the last 10 of them, sma_5 the mean of the last 5,
\* and volatility the non-negative root of their mean squared deviation
\* (the mean of the squares minus the square of the mean, over the last 10).
C24_AveragesOverLastPrices ==
    (e_result.outcome = "return" /\ Len(SuppliedForLast) >= 10) =>
        LET n   == Len(SuppliedForLast)
            p10 == SubSeq(SuppliedForLast, n - 9, n)
            p5  == SubSeq(SuppliedForLast, n - 4, n)
            S   == SumSeq(p10)
            v   == e_result.derived["volatility"].root_of
        IN  /\ e_result.derived["sma_10"] = Quot(S, 10)
            /\ e_result.derived["sma_5"] = Quot(SumSeq(p5), 5)
            /\ v.den = 1000
            /\ v.num = 10 * (10 * SumSquares(p10) - S * S)
            /\ v.num >= 0

\* An eleventh price for a symbol, the window holding different prices.
C24_Witness ==
    /\ e_result.outcome = "return"
    /\ Len(SuppliedForLast) >= 11
    /\ e_result.derived["volatility"].root_of.num > 0
    /\ SuppliedForLast[1] # SuppliedForLast[11]

\* The invocation is over, its event held as many valid trades as the writer's
\* batch size, and no put_object call raised.
PipelineDone ==
    /\ h_pc \in {"returned", "raised"}
    /\ Len(h_event) = s3_batch_size
    /\ \A i \in 1..Len(s3_log) : s3_log[i].ok

\* C25: k valid records of one exchange, symbol and hour given to an invocation
\* whose writer has batch size k produce exactly one put_object for the whole
\* invocation, holding the k enriched records in arrival order; every record
\* after the first carries price_change = its price minus the price of the
\* record before it (-150 for 49950 after 50100), the first carries none.
C25_OneCommitOfEnrichedRecords ==
  /\ [][(h_pc = "loop" /\ PipelineDone') => s3_log' = s3_log]_vars
  /\ [](PipelineDone =>
        /\ Len(s3_log) = 1
        /\ DOMAIN s3_objects = {s3_log[1].key}
        /\ LET recs == s3_log[1].body.records
           IN  /\ Len(recs) = Len(h_event)
               /\ \A i \in 1..Len(recs) :
                     /\ recs[i].id = i
                     /\ recs[i].data = h_event[i]
                     /\ IF i = 1 THEN "price_change" \notin DOMAIN recs[i].derived
                        ELSE recs[i].derived["price_change"] =
                                h_event[i].price.v - h_event[i - 1].price.v
               /\ (/\ Len(recs) = 3
                   /\ h_event[2].price = Num(50100000)
                   /\ h_event[3].price = Num(49950000))
                  => recs[3].derived["price_change"] = -150000)

\* The scenario of the three prices 50000, 50100, 49950 with batch size 3,
\* after the handler returned.
C25_Witness ==
    /\ PipelineDone
    /\ h_pc = "returned"
    /\ Len(h_event) = 3
    /\ h_event[1].price = Num(50000000)
    /\ h_event[2].price = Num(50100000)
    /\ h_event[3].price = Num(49950000)
    /\ s3_log[1].body.records[3].derived["price_change"] = -150000

\* The day of 1970-01-01 + n of a civil date, counted back from the date.
days_from_civil(y, m, d) ==
    LET y1  == IF m <= 2 THEN y - 1 ELSE y
        era == y1 \div 400
        yoe == y1 - era * 400
        doy == (153 * (IF m > 2 THEN m - 3 ELSE m + 9) + 2) \div 5 + d - 1
        doe == yoe * 365 + yoe \div 4 - yoe \div 100 + doy
    IN  era * 146097 + doe - 719468

\* The number two digits write.
TwoDigits(ds) == IF Len(ds) = 2 THEN 10 * ds[1] + ds[2] ELSE -1

\* The key names the UTC hour that holds the time ms.
KeyIsHourOf(key, ms) ==
    /\ TwoDigits(key.month) \in 1..12
    /\ TwoDigits(key.day) \in 1..31
    /\ TwoDigits(key.hour) \in 0..23
    /\ (days_from_civil(key.year, TwoDigits(key.month), TwoDigits(key.day)) * 24
        + TwoDigits(key.hour)) = ms \div 3600000

\* C26: _get_partition_key returns a key for every record; for an integer
\* timestamp T the key is exchange/symbol/year/month/day/hour of T in UTC, month,
\* day and hour in two digits; for a timestamp that does not parse it is that
\* of the current time.
C26_PartitionKeyFromTimestamp ==
    pk_result.outcome # "none" =>
        /\ pk_result.outcome = "return"
        /\ pk_result.key.exchange = GetOrUnknown(pk_record, "exchange")
        /\ pk_result.key.symbol = GetOrUnknown(pk_record, "symbol")
        /\ pk_record.timestamp.k = "num" =>
              KeyIsHourOf(pk_result.key, pk_record.timestamp.v)
        /\ pk_record.timestamp \in {BadStr, Null} =>
              KeyIsHourOf(pk_result.key, pk_clock * 1000)

\* C27: when the handler returns, _send_alert has been called with the
\* high-error-rate message exactly when the batch is non-empty and
\* 10 * invalid_records > total_records; and the code after the loop, once the
\* flush of the metrics has not raised, returns the failure list the loop
\* left, whatever becomes of the alert.
C27_AlertAboveTenPercent ==
    /\ [](h_pc = "returned" =>
            /\ h_alert.message \in {"none", "High error rate detected"}
            /\ h_alert.message = "High error rate detected" <=>
                  (h_total_records > 0 /\ 10 * h_invalid_records > h_total_records))
    /\ [][(/\ h_pc = "loop"
           /\ h_pc' # "loop"
           /\ h_event' = h_event
           /\ cw_calls' = cw_calls \/ cw_published' > cw_published)
          => (h_pc' = "returned" /\ h_failed_records' = h_failed_records)]_vars

\* Two invalid records of ten, the publish of the alert raised, and the handler
\* returned.
C27_Witness ==
    /\ h_pc = "returned"
    /\ h_total_records = 10
    /\ h_invalid_records = 2
    /\ h_alert = send_alert("High error rate detected", "failed")

\* C28: when the handler returns and CloudWatch has accepted every
\* put_metric_data call, no recorded metric is left in the buffer of
\* CloudWatchMetrics.
C28_MetricsFlushedOnReturn ==
    (h_pc = "returned" /\ cw_refused = 0) => metrics_buffer = <<>>

\* The conditions on a decoded trade: exchange, symbol and timestamp non-empty,
\* price > 0, min_price <= price <= max_price and volume >= min_volume.
TradeConditions(md) ==
    /\ md.exchange # "" /\ md.symbol # "" /\ md.timestamp # ""
    /\ md.price.k = "num" /\ md.price.v > 0
    /\ min_price <= md.price.v /\ md.price.v <= max_price
    /\ md.volume.k = "num" /\ md.volume.v >= min_volume

\* C29: the body of the async for loop enqueues a decoded trade only if it
\* satisfies the conditions, so only such records enter the buffer of the
\* producer.
C29_EnqueuedSatisfyConditions ==
    [][\A c \in Workers, m \in Messages :
          (Message(c, m) /\ records_buffer' # records_buffer) =>
              TradeConditions(Decoded(c, m))
      ]_vars

\* The number of required fields the message lacks.
AbsentFields(c, data) == Cardinality(connector_required_fields(c) \ data.fields)

\* The price is non-positive or float() refuses it.
BadPrice(data) ==
    \/ data.k # "object"
    \/ data.price.k \in {"absent", "badstr", "null"}
    \/ data.price.k = "num" /\ data.price.v <= 0

\* C30: for every message the scoring returns
\* max(0.0, 1.0 - 0.2*m - 0.3*b), m being the number of required fields the
\* message lacks and b being 1 for a non-positive or unparsable price.
C30_ScoreFromMissingFieldsAndPrice ==
    q_result # NoScore =>
        /\ q_result.outcome = "return"
        /\ LET t == 10 - 2 * AbsentFields(q_connector, q_data)
                       - (IF BadPrice(q_data) THEN 3 ELSE 0)
           IN  IsTenths(q_result.score, IF t < 0 THEN 0 ELSE t)

\* C31: get_stats reports sent / (sent + failed) when sent + failed > 0 and
\* 1.0 when no record has been sent or failed; the rate lies within [0, 1]
\* and the buffer size is the number of buffered records.
C31_StatsSuccessRate ==
    LET stats == get_stats
        rate == stats.success_rate
    IN  /\ stats.buffer_size = Len(records_buffer)
        /\ rate.den > 0
        /\ 0 <= rate.num /\ rate.num <= rate.den
        /\ (total_records_sent = 0 /\ failed_records = 0) <=>
               (total_records_sent + failed_records <= 0)
        /\ (total_records_sent + failed_records > 0) =>
               rate.num * (total_records_sent + failed_records)
                   = total_records_sent * rate.den
        /\ (total_records_sent = 0 /\ failed_records = 0) => rate.num = rate.den

\* C32: between the calls of the client, whatever the send outcomes were,
\* sent + failed + the length of the buffer is the number of records
\* enqueued.
C32_EveryRecordCountedOnce ==
    AllIdle =>
        total_records_sent + failed_records + Len(records_buffer) = nextId - 1

\* C33: a record of a committed object is never written again: no two
\* put_object calls that succeeded, in one flush or in different flushes,
\* carry the same record.
C33_CommittedAtMostOnce ==
    \A i, j \in 1..Len(s3_log) :
        (i < j /\ s3_log[i].ok /\ s3_log[j].ok) =>
            WrittenIds(s3_log[i]) \cap WrittenIds(s3_log[j]) = {}

\* The ids of the records add_record was given: those in the buffer of the
\* writer and those of its put_object calls.
HandedToWriter ==
    {s3_records_buffer[i].id : i \in 1..Len(s3_records_buffer)}
    \cup UNION {WrittenIds(s3_log[i]) : i \in 1..Len(s3_log)}

\* C34: when lambda_handler returns, total = valid + invalid, and no record
\* handed to the writer is counted invalid by the except clause or listed in
\* the returned failure descriptors.
C34_CountersPartitionRecords ==
    h_pc = "returned" =>
        /\ h_total_records = h_valid_records + h_invalid_records
        /\ \A id \in HandedToWriter :
              /\ \A i \in 1..Len(h_raised) : h_raised[i] # id
              /\ \A i \in 1..Len(h_failed_records) : h_failed_records[i].recordId # id

\* C35: a connect attempt of a task that is not its first follows a wait of
\* at least min(2^1, maxDelay) seconds: the task leaves the while condition
\* for connect() only when start() or the end of such a sleep brought it
\* there.
C35_BackoffBeforeReconnect ==
    [][\A c \in Workers :
          (task[c].loc = "loop" /\ task'[c].loc = "connecting") =>
              \/ task[c].prev = "start"
              \/ /\ task[c].prev = "sleep"
                 /\ task[c].delay >= Min(2 ^ 1, max_reconnect_delay)
      ]_vars

\* Task c enqueues a record in this step: its call of put_record begins and
\* the record is appended to the buffer.
Enqueues(c) ==
    /\ call[c].pc = "idle" /\ call'[c].pc # "idle"
    /\ nextId' = nextId + 1

NextLocs(loc) ==
    CASE loc = "new"         -> {"loop"}
      [] loc = "loop"        -> {"connecting", "done"}
      [] loc = "connecting"  -> {"subscribing", "sleeping", "loop"}
      [] loc = "subscribing" -> {"reading", "sleeping", "loop"}
      [] loc = "reading"     -> {"reading", "handling", "sleeping", "loop"}
      [] loc = "handling"    -> {"reading", "sleeping", "loop"}
      [] loc = "sleeping"    -> {"loop"}
      [] OTHER               -> {}

\* C37: a task subscribes only after a connect that returned, reads and
\* enqueues only after the subscribe on that connection has returned, and
\* after an error it sleeps or is at the while condition, from where the only
\* way to a read is a new connect and a new subscribe.
C37_ConnectSubscribeStream ==
    [][\A c \in Workers :
          /\ task'[c].loc # task[c].loc => task'[c].loc \in NextLocs(task[c].loc)
          /\ (task[c].loc = "connecting" /\ task'[c].loc = "subscribing") =>
                task'[c].streak = task[c].streak
          /\ (task[c].loc = "subscribing" /\ task'[c].loc = "reading") =>
                task'[c].streak = task[c].streak
          /\ Enqueues(c) => task[c].loc \in {"reading", "handling"}
          /\ task'[c].streak > task[c].streak => task'[c].loc \in {"sleeping", "loop"}
      ]_vars

\* A task has lost a connection to an error, has slept, connected and
\* subscribed again, and has enqueued a record on the new connection.
C37_Witness ==
    \E c \in Workers :
        task[c].loc = "reading" /\ task[c].streak >= 1 /\ task[c].had_delivery

\* The put_object calls of the step.
NewWrites == SubSeq(s3_log', Len(s3_log) + 1, Len(s3_log'))

\* The buffer _flush_buffer ran on in the step, if it ran: the buffer of a
\* flush() call; for add_record the buffer with the record added, which is
\* the buffer after the step when the flush left it in place and otherwise
\* the old buffer and the added record, found in the step's writes.
FlushedBuffer ==
    IF s3_flush_calls' # s3_flush_calls THEN s3_records_buffer
    ELSE IF s3_records_buffer' # <<>> THEN s3_records_buffer'
    ELSE LET w == CHOOSE x \in {NewWrites[i] : i \in 1..Len(NewWrites)} :
                      s3_nextId \in WrittenIds(x)
             r == CHOOSE y \in {w.body.records[i] : i \in 1..Len(w.body.records)} :
                      y.id = s3_nextId
         IN  Append(s3_records_buffer, r)

\* _flush_buffer ran in the step on a buffer that was not empty.
FlushRan ==
    /\ \/ s3_flush_calls' # s3_flush_calls
       \/ s3_nextId' # s3_nextId /\ Len(s3_records_buffer) + 1 >= s3_batch_size
    /\ FlushedBuffer # <<>>

\* C38: a flush in which no put_object raises makes one put_object per
\* partition key of the buffer; the object of a key holds the buffered records
\* of that key in buffer order, their number as count and the key as
\* partition; every buffered record is in exactly one of the objects.
C38_OneObjectPerPartition ==
    [][(FlushRan /\ \A i \in 1..Len(NewWrites) : NewWrites[i].ok) =>
          LET buf  == FlushedBuffer
              keys == {get_partition_key(buf[i].data, s3_clock) : i \in 1..Len(buf)}
          IN  /\ Len(NewWrites) = Cardinality(keys)
              /\ \A k \in keys :
                    Cardinality({i \in 1..Len(NewWrites) :
                                    NewWrites[i].body.partition = k}) = 1
              /\ \A i \in 1..Len(NewWrites) :
                    LET w == NewWrites[i]
                    IN  /\ w.body.records =
                              SelectSeq(buf, LAMBDA r :
                                  get_partition_key(r.data, s3_clock) = w.body.partition)
                        /\ w.body.count = Len(w.body.records)
                        /\ w.key.partition = w.body.partition
              /\ \A j \in 1..Len(buf) :
                    Cardinality({i \in 1..Len(NewWrites) :
                                    buf[j].id \in WrittenIds(NewWrites[i])}) = 1
      ]_vars

\* C39: the timestamp of every MarketData a connector's process_message
\* builds from a message of its exchange is a string int() parses, an integer
\* count of epoch milliseconds, for BinanceConnector and CoinbaseConnector.
C39_DecodedTimestampIsInteger ==
    [][\A c \in Workers, m \in Messages :
          (Message(c, m) /\ process_message(c, m) = "record") =>
              IntParses(Decoded(c, m).timestamp)
      ]_vars

====
